---- MODULE Spec2Model ----
(***************************************************************************)
(* State-machine model of the Chip-8 virtual machine of src/src/Chip8.cpp  *)
(* and src/src/Chip8.hpp: the VM object, its public operations and the     *)
(* instruction handlers, with the access lock and the calling threads.     *)
(***************************************************************************)
EXTENDS Integers, Sequences, FiniteSets, TLC

(***************************************************************************)
(* Program constants.                                                      *)
(***************************************************************************)
billion == 1000000000

Prog_Start == 512

MemSize == 4096

(* A program region one byte shorter. *)
Max_Prog_Size_Short == MemSize - Prog_Start - 1

Max_Prog_Size == MemSize - Prog_Start

font_off == 32

MaxDepth == font_off \div 2

no_key == 16

DefaultFreq == 1200

timer_period == billion \div 60

font ==
  << 240, 144, 144, 144, 240,    32,  96,  32,  32, 112,
     240,  16, 240, 128, 240,   240,  16, 240,  16, 240,
     144, 144, 240,  16,  16,   240, 128, 240,  16, 240,
     240, 128, 240, 144, 240,   240,  16,  32,  64,  64,
     240, 144, 240, 144, 240,   240, 144, 240,  16, 240,
     240, 144, 240, 144, 144,   224, 144, 224, 144, 224,
     240, 128, 128, 128, 240,   224, 144, 144, 144, 224,
     240, 128, 240, 128, 240,   240, 128, 240, 128, 128 >>

(***************************************************************************)
(* Fixed-width arithmetic and bit operations.                              *)
(***************************************************************************)
Pow2(n) == CASE n = 0 -> 1 [] n = 1 -> 2 [] n = 2 -> 4 [] n = 3 -> 8
             [] n = 4 -> 16 [] n = 5 -> 32 [] n = 6 -> 64 [] n = 7 -> 128
             [] n = 8 -> 256 [] n = 12 -> 4096 [] n = 16 -> 65536

U8(v) == v % 256

U16(v) == v % 65536

Bit(v, i) == (v \div Pow2(i)) % 2

RECURSIVE BitOp(_, _, _, _)
BitOp(op, a, b, i) ==
  IF i > 7 THEN 0
  ELSE (LET x == Bit(a, i)
            y == Bit(b, i)
            r == CASE op = "and" -> x * y
                   [] op = "or"  -> IF x + y > 0 THEN 1 ELSE 0
                   [] op = "xor" -> (x + y) % 2
        IN r * Pow2(i)) + BitOp(op, a, b, i + 1)

And8(a, b) == BitOp("and", a, b, 0)

Or8(a, b) == BitOp("or", a, b, 0)

Xor8(a, b) == BitOp("xor", a, b, 0)

(***************************************************************************)
(* Instruction codec.                                                      *)
(***************************************************************************)
instr_a(instruction) == instruction \div 4096

instr_b(instruction) == (instruction \div 256) % 16

instr_c(instruction) == (instruction \div 16) % 16

instr_d(instruction) == instruction % 16

instr_addr(instruction) == instruction % 4096

instr_imm(instruction) == instruction % 256

(***************************************************************************)
(* Dispatch: the name of the handler of an instruction word, or            *)
(* "Chip8Error" when the lookup fails.                                     *)
(***************************************************************************)
INSTRUCTIONS1(k) ==
  CASE k = 1 -> "in_jump" [] k = 2 -> "in_call"
    [] k = 10 -> "in_loadi" [] k = 11 -> "in_jumpi"
    [] OTHER -> "Chip8Error"

INSTRUCTIONS2(k) ==
  CASE k = 3 -> "in_ske" [] k = 4 -> "in_skne" [] k = 6 -> "in_load"
    [] k = 7 -> "in_add" [] k = 12 -> "in_rand"
    [] OTHER -> "Chip8Error"

(* INSTRUCTIONS3 keyed by the leading half byte alone for 5XYN. *)
INSTRUCTIONS3_Loose(k) ==
  CASE k \in 80..95 -> "in_skre" [] k = 128 -> "in_move" [] k = 129 -> "in_or"
    [] k = 130 -> "in_and" [] k = 131 -> "in_xor" [] k = 132 -> "in_addr"
    [] k = 133 -> "in_sub" [] k = 134 -> "in_shr" [] k = 135 -> "in_suba"
    [] k = 142 -> "in_shl" [] k = 144 -> "in_skrne"
    [] OTHER -> "Chip8Error"

INSTRUCTIONS3(k) ==
  CASE k = 80 -> "in_skre" [] k = 128 -> "in_move" [] k = 129 -> "in_or"
    [] k = 130 -> "in_and" [] k = 131 -> "in_xor" [] k = 132 -> "in_addr"
    [] k = 133 -> "in_sub" [] k = 134 -> "in_shr" [] k = 135 -> "in_suba"
    [] k = 142 -> "in_shl" [] k = 144 -> "in_skrne"
    [] OTHER -> "Chip8Error"

INSTRUCTIONS4(k) ==
  CASE k = 3745 -> "in_skup" [] k = 3742 -> "in_skpr" [] k = 3891 -> "in_bcd"
    [] k = 3861 -> "in_loadd" [] k = 3925 -> "in_stor" [] k = 3941 -> "in_read"
    [] k = 3847 -> "in_moved" [] k = 3864 -> "in_loads" [] k = 3881 -> "in_ldspr"
    [] k = 3850 -> "in_keyd" [] k = 3870 -> "in_addi"
    [] OTHER -> "Chip8Error"

get_instr_func(instruction) ==
  LET a == instr_a(instruction)
      c == instr_c(instruction)
      d == instr_d(instruction)
  IN CASE a = 0 -> (IF instruction = 224 THEN "in_clr"
                    ELSE IF instruction = 238 THEN "in_rts"
                    ELSE "Chip8Error")
       [] a = 13 -> "in_draw"
       [] a \in {1, 2, 10, 11} -> INSTRUCTIONS1(a)
       [] a \in {3, 4, 6, 7, 12} -> INSTRUCTIONS2(a)
       [] a \in {14, 15} -> INSTRUCTIONS4(a * 256 + c * 16 + d)
       [] OTHER -> INSTRUCTIONS3(a * 16 + d)

(***************************************************************************)
(* Outcome of a call that can throw: the state it leaves and the exception *)
(* that leaves it.  "Chip8Error" and "std::out_of_range" are thrown by     *)
(* value; "Chip8Error*" and "std::out_of_range*" are the pointers thrown   *)
(* by the `throw new` statements, which no by-reference handler catches.   *)
(***************************************************************************)
Ok(s) == [s |-> s, exc |-> "none", out |-> << >>]

Throw(s, e) == [s |-> s, exc |-> e, out |-> << >>]

Notify(s, n) == [s |-> s, exc |-> "none", out |-> << n >>]

(***************************************************************************)
(* Memory.  The 4096-byte array _mem is held as the function from the      *)
(* addresses of its non-zero bytes to those bytes: MemAt reads any address *)
(* in 0..MemSize-1 and MemPut writes one, keeping that form.  Callers do   *)
(* the bounds check of std::array::at before they use either.              *)
(***************************************************************************)
MemAt(m, a) == IF a \in DOMAIN m THEN m[a] ELSE 0

MemPut(m, a, v) ==
  IF v = 0 THEN [x \in (DOMAIN m) \ {a} |-> m[x]]
  ELSE [x \in (DOMAIN m) \cup {a} |-> IF x = a THEN v ELSE m[x]]

(***************************************************************************)
(* Memory half-word access.                                                *)
(***************************************************************************)
get_hword(s, addr) ==
  IF addr < 0 \/ addr >= MemSize
    THEN [v |-> 0, exc |-> "std::out_of_range*"]
  ELSE IF addr + 1 >= MemSize
    THEN [v |-> 0, exc |-> "std::out_of_range"]
  ELSE [v |-> U16(MemAt(s.mem, addr) * 256 + MemAt(s.mem, addr + 1)),
        exc |-> "none"]

set_hword(s, addr, hword) ==
  IF addr < 0 \/ addr >= MemSize
    THEN Throw(s, "std::out_of_range*")
  ELSE IF addr + 1 >= MemSize
    THEN Throw([s EXCEPT !.mem = MemPut(@, addr, U8(hword \div 256))],
               "std::out_of_range")
  ELSE Ok([s EXCEPT !.mem = MemPut(MemPut(@, addr, U8(hword \div 256)),
                                   addr + 1, hword % 256)])

(***************************************************************************)
(* Instruction handlers.  Each takes the VM state and the instruction word *)
(* and yields the outcome of the handler alone (execute_cycle adds the     *)
(* sound update and the PC increment).                                     *)
(***************************************************************************)
in_clr(s, instr) ==
  Notify([s EXCEPT !.screen = [r \in 0..31 |-> {}]], "mark")

in_rts(s, instr) ==
  IF s.sp <= 1 THEN Throw(s, "Chip8Error")
  ELSE LET s1 == [s EXCEPT !.sp = s.sp - 2]
           hw == get_hword(s1, s1.sp)
       IN IF hw.exc # "none" THEN Throw(s1, hw.exc)
          ELSE Ok([s1 EXCEPT !.pc = hw.v])

in_jump(s, instr) == Ok([s EXCEPT !.pc = instr_addr(instr)])

(* in_call with the overflow test moved one frame up. *)
in_call_deep(s, instr) ==
  IF s.sp >= font_off + 1 THEN Throw(s, "Chip8Error")
  ELSE LET w == set_hword(s, s.sp, s.pc)
       IN IF w.exc # "none" THEN w
          ELSE Ok([w.s EXCEPT !.sp = U16(s.sp + 2), !.pc = instr_addr(instr)])

in_call(s, instr) ==
  IF s.sp >= font_off - 1 THEN Throw(s, "Chip8Error")
  ELSE LET w == set_hword(s, s.sp, s.pc)
       IN IF w.exc # "none" THEN w
          ELSE Ok([w.s EXCEPT !.sp = U16(s.sp + 2), !.pc = instr_addr(instr)])

(* in_ske that never skips. *)
in_ske_never(s, instr) == Ok(s)

in_ske(s, instr) ==
  Ok(IF s.gprf[instr_b(instr)] = instr_imm(instr)
       THEN [s EXCEPT !.pc = U16(s.pc + 2)] ELSE s)

in_skne(s, instr) ==
  Ok(IF s.gprf[instr_b(instr)] # instr_imm(instr)
       THEN [s EXCEPT !.pc = U16(s.pc + 2)] ELSE s)

in_skre(s, instr) ==
  Ok(IF s.gprf[instr_b(instr)] = s.gprf[instr_c(instr)]
       THEN [s EXCEPT !.pc = U16(s.pc + 2)] ELSE s)

(* in_load that writes the register named by the third half byte. *)
in_load_c(s, instr) == Ok([s EXCEPT !.gprf[instr_c(instr)] = instr_imm(instr)])

in_load(s, instr) == Ok([s EXCEPT !.gprf[instr_b(instr)] = instr_imm(instr)])

in_add(s, instr) ==
  Ok([s EXCEPT !.gprf[instr_b(instr)] = U8(@ + instr_imm(instr))])

in_move(s, instr) ==
  Ok([s EXCEPT !.gprf[instr_b(instr)] = s.gprf[instr_c(instr)]])

(* in_or that leaves VF as it was. *)
in_or_keeping(s, instr) ==
  Ok([s EXCEPT !.gprf[instr_b(instr)] =
                 Or8(s.gprf[instr_b(instr)], s.gprf[instr_c(instr)])])

in_or(s, instr) ==
  LET s1 == [s EXCEPT !.gprf[instr_b(instr)] =
                        Or8(s.gprf[instr_b(instr)], s.gprf[instr_c(instr)])]
  IN Ok([s1 EXCEPT !.gprf[15] = 0])

in_and(s, instr) ==
  LET s1 == [s EXCEPT !.gprf[instr_b(instr)] =
                        And8(s.gprf[instr_b(instr)], s.gprf[instr_c(instr)])]
  IN Ok([s1 EXCEPT !.gprf[15] = 0])

in_xor(s, instr) ==
  LET s1 == [s EXCEPT !.gprf[instr_b(instr)] =
                        Xor8(s.gprf[instr_b(instr)], s.gprf[instr_c(instr)])]
  IN Ok([s1 EXCEPT !.gprf[15] = 0])

(* in_addr that also reports a carry when the sum equals the operand. *)
in_addr_le(s, instr) ==
  LET b == s.gprf[instr_b(instr)]
      c == s.gprf[instr_c(instr)]
      sum == U8(b + c)
      s1 == [s EXCEPT !.gprf[instr_b(instr)] = sum]
  IN Ok([s1 EXCEPT !.gprf[15] = IF sum <= b THEN 1 ELSE 0])

in_addr(s, instr) ==
  LET b == s.gprf[instr_b(instr)]
      c == s.gprf[instr_c(instr)]
      sum == U8(b + c)
      s1 == [s EXCEPT !.gprf[instr_b(instr)] = sum]
  IN Ok([s1 EXCEPT !.gprf[15] = IF sum < b THEN 1 ELSE 0])

(* in_sub that also reports a borrow when the difference equals the      *)
(* operand.                                                               *)
in_sub_ge(s, instr) ==
  LET b == s.gprf[instr_b(instr)]
      c == s.gprf[instr_c(instr)]
      difference == U8(b - c)
      s1 == [s EXCEPT !.gprf[instr_b(instr)] = difference]
  IN Ok([s1 EXCEPT !.gprf[15] = IF difference >= b THEN 0 ELSE 1])

in_sub(s, instr) ==
  LET b == s.gprf[instr_b(instr)]
      c == s.gprf[instr_c(instr)]
      difference == U8(b - c)
      s1 == [s EXCEPT !.gprf[instr_b(instr)] = difference]
  IN Ok([s1 EXCEPT !.gprf[15] = IF difference > b THEN 0 ELSE 1])

in_shr(s, instr) ==
  LET opY == s.gprf[instr_c(instr)]
      s1 == [s EXCEPT !.gprf[instr_b(instr)] = opY \div 2]
  IN Ok([s1 EXCEPT !.gprf[15] = opY % 2])

in_suba(s, instr) ==
  LET b == s.gprf[instr_b(instr)]
      c == s.gprf[instr_c(instr)]
      difference == U8(c - b)
      s1 == [s EXCEPT !.gprf[instr_b(instr)] = difference]
  IN Ok([s1 EXCEPT !.gprf[15] = IF difference > c THEN 0 ELSE 1])

(* in_shl that shifts VX in place. *)
in_shl_inplace(s, instr) ==
  LET opX == s.gprf[instr_b(instr)]
      s1 == [s EXCEPT !.gprf[instr_b(instr)] = U8(opX * 2)]
  IN Ok([s1 EXCEPT !.gprf[15] = opX \div 128])

in_shl(s, instr) ==
  LET opY == s.gprf[instr_c(instr)]
      s1 == [s EXCEPT !.gprf[instr_b(instr)] = U8(opY * 2)]
  IN Ok([s1 EXCEPT !.gprf[15] = opY \div 128])

in_skrne(s, instr) ==
  Ok(IF s.gprf[instr_b(instr)] # s.gprf[instr_c(instr)]
       THEN [s EXCEPT !.pc = U16(s.pc + 2)] ELSE s)

in_loadi(s, instr) == Ok([s EXCEPT !.index = instr_addr(instr)])

in_jumpi(s, instr) == Ok([s EXCEPT !.pc = U16(s.gprf[0] + instr_addr(instr))])

in_rand(s, instr, rnd) ==
  Ok([s EXCEPT !.gprf[instr_b(instr)] = And8(rnd % 256, instr_imm(instr))])

(***************************************************************************)
(* A 64-bit screen row is the set of its set bit positions, bit 63 being   *)
(* the leftmost pixel; a shift moves the positions and drops those that    *)
(* leave the word.                                                         *)
(***************************************************************************)
ByteBits(b) == {i \in 0..7 : Bit(b, i) = 1}

(* ShiftRow with the eight bits of the sprite line in reverse order. *)
ShiftRowMirrored(bits, x_shift) == {7 - i + x_shift : i \in bits} \cap (0..63)

ShiftRow(bits, x_shift) == {i + x_shift : i \in bits} \cap (0..63)

RECURSIVE DrawRows(_, _, _, _, _)
DrawRows(s, y, y_max, ypos, x_shift) ==
  IF y >= y_max THEN Notify(s, "mark")
  ELSE IF s.index + y >= MemSize THEN Throw(s, "std::out_of_range")
  ELSE LET spr_line == ShiftRow(ByteBits(MemAt(s.mem, s.index + y)), x_shift)
           old == s.screen[ypos + y]
           new_line == (old \ spr_line) \cup (spr_line \ old)
           s1 == IF old \cap spr_line # {}
                   THEN [s EXCEPT !.gprf[15] = 1] ELSE s
       IN DrawRows([s1 EXCEPT !.screen[ypos + y] = new_line],
                   y + 1, y_max, ypos, x_shift)

(* in_draw that gives up a draw it may not make instead of retrying it. *)
in_draw_unretried(s, instr) ==
  IF ~s.can_draw THEN Ok(s)
  ELSE LET s0 == [s EXCEPT !.gprf[15] = 0]
           xpos == s0.gprf[instr_b(instr)] % 64
           ypos == s0.gprf[instr_c(instr)] % 32
           y_max == IF instr_d(instr) < 32 - ypos
                      THEN instr_d(instr) ELSE 32 - ypos
           x_shift == 56 - xpos
       IN DrawRows(s0, 0, y_max, ypos, x_shift)

(* in_draw that reads the coordinates before it clears VF. *)
in_draw_early(s, instr) ==
  IF ~s.can_draw THEN Ok([s EXCEPT !.pc = U16(s.pc - 2 + 65536)])
  ELSE LET s0 == [s EXCEPT !.gprf[15] = 0]
           xpos == s.gprf[instr_b(instr)] % 64
           ypos == s.gprf[instr_c(instr)] % 32
           y_max == IF instr_d(instr) < 32 - ypos
                      THEN instr_d(instr) ELSE 32 - ypos
           x_shift == 56 - xpos
       IN DrawRows(s0, 0, y_max, ypos, x_shift)

in_draw(s, instr) ==
  IF ~s.can_draw THEN Ok([s EXCEPT !.pc = U16(s.pc - 2 + 65536)])
  ELSE LET s0 == [s EXCEPT !.gprf[15] = 0]
           xpos == s0.gprf[instr_b(instr)] % 64
           ypos == s0.gprf[instr_c(instr)] % 32
           y_max == IF instr_d(instr) < 32 - ypos
                      THEN instr_d(instr) ELSE 32 - ypos
           x_shift == 56 - xpos
       IN DrawRows(s0, 0, y_max, ypos, x_shift)

(***************************************************************************)
(* Keyboard delegate (MainFrame::test_key): keys is the set of keys that   *)
(* are down; _key_states.at(key) throws for a key above 15.                *)
(***************************************************************************)
in_skpr(s, instr, keys) ==
  LET k == s.gprf[instr_b(instr)]
  IN IF k > 15 THEN Throw(s, "std::out_of_range")
     ELSE Ok(IF k \in keys THEN [s EXCEPT !.pc = U16(s.pc + 2)] ELSE s)

in_skup(s, instr, keys) ==
  LET k == s.gprf[instr_b(instr)]
  IN IF k > 15 THEN Throw(s, "std::out_of_range")
     ELSE Ok(IF k \notin keys THEN [s EXCEPT !.pc = U16(s.pc + 2)] ELSE s)

in_moved(s, instr) == Ok([s EXCEPT !.gprf[instr_b(instr)] = s.delay])

in_keyd(s, instr) == Ok([s EXCEPT !.key_wait = TRUE])

in_loadd(s, instr) == Ok([s EXCEPT !.delay = s.gprf[instr_b(instr)]])

in_loads(s, instr) == Ok([s EXCEPT !.sound = s.gprf[instr_b(instr)]])

in_addi(s, instr) == Ok([s EXCEPT !.index = U16(@ + s.gprf[instr_b(instr)])])

in_ldspr(s, instr) ==
  Ok([s EXCEPT !.index = U16(font_off + s.gprf[instr_b(instr)] * 5)])

RECURSIVE Dabble(_, _)
Dabble(scratch, i) ==
  IF i >= 7 THEN scratch
  ELSE LET s1 == scratch * 2
           s2 == IF (s1 \div 65536) % 16 > 4 THEN s1 + 196608 ELSE s1
           s3 == IF (s2 \div 4096) % 16 > 4 THEN s2 + 12288 ELSE s2
           s4 == IF (s3 \div 256) % 16 > 4 THEN s3 + 768 ELSE s3
       IN Dabble(s4, i + 1)

(* in_bcd without the last shift. *)
in_bcd_unshifted(s, instr) ==
  LET scratch == Dabble(s.gprf[instr_b(instr)], 0)
      h == (scratch \div 65536) % 16
      t == (scratch \div 4096) % 16
      o == (scratch \div 256) % 16
  IN IF s.index + 2 >= MemSize THEN Throw(s, "std::out_of_range")
     ELSE Ok([s EXCEPT !.mem = MemPut(MemPut(MemPut(@, s.index, h),
                                             s.index + 1, t), s.index + 2, o)])

in_bcd(s, instr) ==
  LET scratch == Dabble(s.gprf[instr_b(instr)], 0) * 2
      h == (scratch \div 65536) % 16
      t == (scratch \div 4096) % 16
      o == (scratch \div 256) % 16
  IN IF s.index >= MemSize THEN Throw(s, "std::out_of_range")
     ELSE IF s.index + 1 >= MemSize
       THEN Throw([s EXCEPT !.mem = MemPut(@, s.index, h)], "std::out_of_range")
     ELSE IF s.index + 2 >= MemSize
       THEN Throw([s EXCEPT !.mem = MemPut(MemPut(@, s.index, h), s.index + 1, t)],
                  "std::out_of_range")
     ELSE Ok([s EXCEPT !.mem = MemPut(MemPut(MemPut(@, s.index, h),
                                             s.index + 1, t), s.index + 2, o)])

RECURSIVE StorLoop(_, _, _)
StorLoop(s, i, x) ==
  IF i > x THEN Ok(s)
  ELSE LET a == s.index
           s1 == [s EXCEPT !.index = U16(a + 1)]
       IN IF a >= MemSize THEN Throw(s1, "std::out_of_range")
          ELSE StorLoop([s1 EXCEPT !.mem = MemPut(@, a, s.gprf[i])], i + 1, x)

in_stor(s, instr) == StorLoop(s, 0, instr_b(instr))

RECURSIVE ReadLoop(_, _, _)
ReadLoop(s, i, x) ==
  IF i > x THEN Ok(s)
  ELSE LET a == s.index
           s1 == [s EXCEPT !.index = U16(a + 1)]
       IN IF a >= MemSize THEN Throw(s1, "std::out_of_range")
          ELSE ReadLoop([s1 EXCEPT !.gprf[i] = MemAt(s.mem, a)], i + 1, x)

in_read(s, instr) == ReadLoop(s, 0, instr_b(instr))

(***************************************************************************)
(* The call of the decoded handler through the function pointer.           *)
(***************************************************************************)
instr_func(f, s, instr, keys, rnd) ==
  CASE f = "in_clr" -> in_clr(s, instr)
    [] f = "in_rts" -> in_rts(s, instr)
    [] f = "in_jump" -> in_jump(s, instr)
    [] f = "in_call" -> in_call(s, instr)
    [] f = "in_ske" -> in_ske(s, instr)
    [] f = "in_skne" -> in_skne(s, instr)
    [] f = "in_skre" -> in_skre(s, instr)
    [] f = "in_load" -> in_load(s, instr)
    [] f = "in_add" -> in_add(s, instr)
    [] f = "in_move" -> in_move(s, instr)
    [] f = "in_or" -> in_or(s, instr)
    [] f = "in_and" -> in_and(s, instr)
    [] f = "in_xor" -> in_xor(s, instr)
    [] f = "in_addr" -> in_addr(s, instr)
    [] f = "in_sub" -> in_sub(s, instr)
    [] f = "in_shr" -> in_shr(s, instr)
    [] f = "in_suba" -> in_suba(s, instr)
    [] f = "in_shl" -> in_shl(s, instr)
    [] f = "in_skrne" -> in_skrne(s, instr)
    [] f = "in_loadi" -> in_loadi(s, instr)
    [] f = "in_jumpi" -> in_jumpi(s, instr)
    [] f = "in_rand" -> in_rand(s, instr, rnd)
    [] f = "in_draw" -> in_draw(s, instr)
    [] f = "in_skpr" -> in_skpr(s, instr, keys)
    [] f = "in_skup" -> in_skup(s, instr, keys)
    [] f = "in_moved" -> in_moved(s, instr)
    [] f = "in_keyd" -> in_keyd(s, instr)
    [] f = "in_loadd" -> in_loadd(s, instr)
    [] f = "in_loads" -> in_loads(s, instr)
    [] f = "in_addi" -> in_addi(s, instr)
    [] f = "in_ldspr" -> in_ldspr(s, instr)
    [] f = "in_bcd" -> in_bcd(s, instr)
    [] f = "in_stor" -> in_stor(s, instr)
    [] f = "in_read" -> in_read(s, instr)

(***************************************************************************)
(* One instruction cycle.  TimerUpdate is the 60 Hz part that runs first in *)
(* every cycle, also while a key is awaited.                               *)
(***************************************************************************)
(* TimerUpdate that drops the remainder of the 60 Hz accumulator. *)
TimerUpdateReset(s, cycle_time) ==
  LET t == s.timer + cycle_time
  IN IF t >= timer_period
       THEN LET timer_pulses == t \div timer_period
            IN [s EXCEPT !.timer = 0,
                         !.delay = IF s.delay # 0
                                     THEN U8(s.delay - timer_pulses) ELSE 0,
                         !.sound = IF s.sound # 0
                                     THEN U8(s.sound - timer_pulses) ELSE 0,
                         !.can_draw = TRUE]
       ELSE [s EXCEPT !.timer = t, !.can_draw = FALSE]

TimerUpdate(s, cycle_time) ==
  LET t == s.timer + cycle_time
  IN IF t >= timer_period
       THEN LET timer_pulses == t \div timer_period
            IN [s EXCEPT !.timer = t % timer_period,
                         !.delay = IF s.delay # 0
                                     THEN U8(s.delay - timer_pulses) ELSE 0,
                         !.sound = IF s.sound # 0
                                     THEN U8(s.sound - timer_pulses) ELSE 0,
                         !.can_draw = TRUE]
       ELSE [s EXCEPT !.timer = t, !.can_draw = FALSE]

(* SoundUpdate that starts the sound from a timer value of 1. *)
SoundUpdateFromOne(r) ==
  IF r.s.sounding /\ r.s.sound = 0
    THEN [r EXCEPT !.s.sounding = FALSE, !.out = Append(r.out, "stop_sound")]
  ELSE IF ~r.s.sounding /\ r.s.sound >= 1
    THEN [r EXCEPT !.s.sounding = TRUE, !.out = Append(r.out, "start_sound")]
  ELSE r

SoundUpdate(r) ==
  IF r.s.sounding /\ r.s.sound = 0
    THEN [r EXCEPT !.s.sounding = FALSE, !.out = Append(r.out, "stop_sound")]
  ELSE IF ~r.s.sounding /\ r.s.sound >= 2
    THEN [r EXCEPT !.s.sounding = TRUE, !.out = Append(r.out, "start_sound")]
  ELSE r

(* PcIncrement without the exemption of jumps, calls and the key wait. *)
PcIncrementAll(r, f) == [r EXCEPT !.s.pc = U16(r.s.pc + 2)]

PcIncrement(r, f) ==
  IF f \notin {"in_jump", "in_jumpi", "in_call", "in_keyd"}
    THEN [r EXCEPT !.s.pc = U16(r.s.pc + 2)]
  ELSE r

CycleEnd(r, f) ==
  IF r.exc = "std::out_of_range" THEN Throw(r.s, "Chip8Error")
  ELSE IF r.exc # "none" THEN r
  ELSE PcIncrement(SoundUpdate(r), f)

CycleCall(s1, instruction, f, keys, rnd) ==
  IF f = "Chip8Error" THEN Throw(s1, "Chip8Error")
  ELSE CycleEnd(instr_func(f, s1, instruction, keys, rnd), f)

CycleDecode(s1, hw, keys, rnd) ==
  IF hw.exc # "none" THEN Throw(s1, hw.exc)
  ELSE CycleCall(s1, hw.v, get_instr_func(hw.v), keys, rnd)

CycleFetch(s1, keys, rnd) ==
  IF s1.key_wait THEN Ok(s1)
  ELSE IF s1.pc < Prog_Start \/ s1.pc > MemSize THEN Throw(s1, "Chip8Error*")
  ELSE CycleDecode(s1, get_hword(s1, s1.pc), keys, rnd)

execute_cycle(s, cycle_time, keys, rnd) ==
  CycleFetch(TimerUpdate(s, cycle_time), keys, rnd)

(***************************************************************************)
(* execute_batch.  The loop result carries the state, the exception that   *)
(* ended the loop, and a record of what the loop did: the number of cycles *)
(* completed, the 60 Hz pulses applied, whether a pulse raised a timer,    *)
(* whether an instruction wrote a timer, and the notifications sent.       *)
(***************************************************************************)
TruncDiv(a, b) == IF a >= 0 THEN a \div b ELSE -((-a) \div b)

CycleNote(acc, t, r, cycle_period) ==
  [acc EXCEPT !.s = r.s,
              !.exc = r.exc,
              !.wrapped = @ \/ t.delay > acc.s.delay \/ t.sound > acc.s.sound,
              !.written = @ \/ (r.exc = "none" /\ (r.s.delay # t.delay
                                                   \/ r.s.sound # t.sound)),
              !.ticks = @ + ((acc.s.timer + cycle_period) \div timer_period),
              !.out = IF r.out = << >> THEN @ ELSE @ \o r.out]

(* CycleDone that leaves the time budget as it was. *)
CycleDoneKeep(acc, cycle_period) == [acc EXCEPT !.cycles = @ + 1]

CycleDone(acc, cycle_period) ==
  [acc EXCEPT !.s.time_budget = @ - cycle_period, !.cycles = @ + 1]

CycleStep(acc, t, r, cycle_period) ==
  IF r.exc # "none" THEN CycleNote(acc, t, r, cycle_period)
  ELSE CycleDone(CycleNote(acc, t, r, cycle_period), cycle_period)

(***************************************************************************)
(* The for loop of execute_batch: iterations i .. cycles-1 in order, ended *)
(* early by an exception.  The range is run as its two halves one after    *)
(* the other, so that the evaluation nests only logarithmically deep.      *)
(***************************************************************************)
RECURSIVE CycleLoop(_, _, _, _, _, _)
CycleLoop(acc, i, cycles, cycle_period, keys, rnd) ==
  IF i >= cycles \/ acc.exc # "none" THEN acc
  ELSE IF cycles - i = 1
    THEN CycleStep(acc, TimerUpdate(acc.s, cycle_period),
                   execute_cycle(acc.s, cycle_period, keys, rnd), cycle_period)
  ELSE CycleLoop(
         CycleLoop(acc, i, (i + cycles) \div 2, cycle_period, keys, rnd),
         (i + cycles) \div 2, cycles, cycle_period, keys, rnd)

NoRun(s, e) ==
  [s |-> s, exc |-> e, lock |-> "free", refused |-> FALSE, cycles |-> 0,
   wrapped |-> FALSE, written |-> FALSE, ticks |-> 0, out |-> << >>]

BatchEnd(r) ==
  IF r.exc = "Chip8Error" THEN [r EXCEPT !.s.crashed = TRUE, !.lock = "free"]
  ELSE IF r.exc # "none" THEN [r EXCEPT !.lock = "held"]
  ELSE [r EXCEPT !.lock = "free"]

BatchRun(s1, cycle_period, keys, rnd) ==
  BatchEnd(CycleLoop(NoRun(s1, "none"), 0,
                     TruncDiv(s1.time_budget, cycle_period),
                     cycle_period, keys, rnd))

(* execute_batch without the test of _crashed. *)
execute_batch_unchecked(s, elapsed_time, keys, rnd) ==
  IF s.freq = 0 THEN [NoRun(s, "SIGFPE") EXCEPT !.lock = "held"]
  ELSE BatchRun([s EXCEPT !.time_budget = @ + elapsed_time],
                billion \div s.freq, keys, rnd)

execute_batch(s, elapsed_time, keys, rnd) ==
  IF s.crashed
    THEN [NoRun(s, "Chip8Error*") EXCEPT !.lock = "untouched", !.refused = TRUE]
  ELSE IF s.freq = 0 THEN [NoRun(s, "SIGFPE") EXCEPT !.lock = "held"]
  ELSE BatchRun([s EXCEPT !.time_budget = @ + elapsed_time],
                billion \div s.freq, keys, rnd)

(***************************************************************************)
(* clear_state and load_program.                                           *)
(***************************************************************************)
clear_state(s) ==
  [s EXCEPT !.pc = Prog_Start, !.sp = 0, !.index = 0, !.delay = 0,
            !.sound = 0, !.sounding = FALSE, !.crashed = FALSE,
            !.programmed = FALSE, !.can_draw = TRUE, !.key_wait = FALSE,
            !.time_budget = 0, !.timer = 0,
            !.gprf = [i \in 0..15 |-> 0],
            !.mem = << >>,
            !.screen = [r \in 0..31 |-> {}]]

memcpy(m, dest, src) ==
  LET covered == {a \in dest..(dest + Len(src) - 1) : TRUE}
      keep == (DOMAIN m) \ covered
      set == {a \in covered : src[a - dest + 1] # 0}
  IN [a \in keep \cup set |-> IF a \in set THEN src[a - dest + 1] ELSE m[a]]

(* load_program that clears nothing before it copies. *)
load_program_unclear(s, program) ==
  [s EXCEPT !.mem = memcpy(memcpy(@, font_off, font), Prog_Start, program),
            !.pc = Prog_Start, !.programmed = TRUE]

load_program(s, program) ==
  LET c == clear_state(s)
      withFont == memcpy(c.mem, font_off, font)
      withProg == memcpy(withFont, Prog_Start, program)
  IN [c EXCEPT !.mem = withProg, !.programmed = TRUE]

(***************************************************************************)
(* key_pressed and key_released, run without interruption.                 *)
(***************************************************************************)
(* key_pressed that also ends the wait. *)
key_pressed_clearing(s, key) ==
  IF key > 15 THEN Throw(s, "std::domain_error*")
  ELSE IF ~s.key_wait THEN Ok(s)
  ELSE LET hw == get_hword(s, s.pc)
       IN IF hw.exc # "none" THEN Throw(s, hw.exc)
          ELSE Ok([s EXCEPT !.gprf[instr_b(hw.v)] = key,
                            !.pc = U16(s.pc + 2),
                            !.pressed_key = key,
                            !.key_wait = FALSE])

key_pressed(s, key) ==
  IF key > 15 THEN Throw(s, "std::domain_error*")
  ELSE IF ~s.key_wait THEN Ok(s)
  ELSE LET hw == get_hword(s, s.pc)
       IN IF hw.exc # "none" THEN Throw(s, hw.exc)
          ELSE Ok([s EXCEPT !.gprf[instr_b(hw.v)] = key,
                            !.pc = U16(s.pc + 2),
                            !.pressed_key = key])

(* key_released that compares the key before it checks its range. *)
key_released_unchecked(s, key) ==
  IF key # s.pressed_key THEN Ok(s)
  ELSE IF key > 15 THEN Ok([s EXCEPT !.key_wait = FALSE])
  ELSE Ok([s EXCEPT !.key_wait = FALSE, !.pressed_key = no_key])

key_released(s, key) ==
  IF key > 15 THEN Throw(s, "std::domain_error*")
  ELSE IF key # s.pressed_key THEN Ok(s)
  ELSE Ok([s EXCEPT !.key_wait = FALSE, !.pressed_key = no_key])

(***************************************************************************)
(* State save and restore (the stream insertion and extraction operators). *)
(* Every field is written as its raw bytes in host (little-endian) order.  *)
(***************************************************************************)
RECURSIVE LEBytes(_, _)
LEBytes(v, n) == IF n = 0 THEN << >> ELSE << v % 256 >> \o LEBytes(v \div 256, n - 1)

RECURSIVE LEValue(_, _)
LEValue(bytes, signed) ==
  IF Len(bytes) = 0 THEN 0
  ELSE IF Len(bytes) = 1
    THEN (IF signed /\ bytes[1] >= 128 THEN bytes[1] - 256 ELSE bytes[1])
  ELSE bytes[1] + 256 * LEValue(Tail(bytes), signed)

BoolByte(b) == IF b THEN 1 ELSE 0

ByteBool(v) == v # 0

RECURSIVE BitsByte(_, _)
BitsByte(bits, j) ==
  IF j > 7 THEN 0
  ELSE (IF j \in bits THEN Pow2(j) ELSE 0) + BitsByte(bits, j + 1)

RowBytes(row) ==
  [k \in 1..8 |-> BitsByte({i - 8 * (k - 1) : i \in {b \in row : b \div 8 = k - 1}}, 0)]

BytesRow(bytes) ==
  UNION {{8 * (k - 1) + j : j \in ByteBits(bytes[k])} : k \in 1..8}

RECURSIVE ScreenBytes(_, _)
ScreenBytes(screen, r) ==
  IF r > 31 THEN << >> ELSE RowBytes(screen[r]) \o ScreenBytes(screen, r + 1)

StateSize == 2 + 2 + 2 + 1 + 1 + 1 + 1 + 1 + 1 + 1 + 8 + 8 + 16 + MemSize + 32 * 8

(* StreamInsert that writes _sp ahead of _pc. *)
StreamInsertSpFirst(s) ==
  LEBytes(s.sp, 2) \o LEBytes(s.pc, 2) \o LEBytes(s.index, 2)
    \o << s.delay >> \o << s.sound >>
    \o << BoolByte(s.sounding) >> \o << BoolByte(s.crashed) >>
    \o << BoolByte(s.programmed) >> \o << BoolByte(s.can_draw) >>
    \o << BoolByte(s.key_wait) >>
    \o LEBytes(s.time_budget, 8) \o LEBytes(s.timer, 8)
    \o [i \in 1..16 |-> s.gprf[i - 1]]
    \o [i \in 1..MemSize |-> MemAt(s.mem, i - 1)]
    \o ScreenBytes(s.screen, 0)

StreamInsert(s) ==
  LEBytes(s.pc, 2) \o LEBytes(s.sp, 2) \o LEBytes(s.index, 2)
    \o << s.delay >> \o << s.sound >>
    \o << BoolByte(s.sounding) >> \o << BoolByte(s.crashed) >>
    \o << BoolByte(s.programmed) >> \o << BoolByte(s.can_draw) >>
    \o << BoolByte(s.key_wait) >>
    \o LEBytes(s.time_budget, 8) \o LEBytes(s.timer, 8)
    \o [i \in 1..16 |-> s.gprf[i - 1]]
    \o [i \in 1..MemSize |-> MemAt(s.mem, i - 1)]
    \o ScreenBytes(s.screen, 0)

Rd(is, off, n) == SubSeq(is, off + 1, off + n)

(***************************************************************************)
(* The fields that operator>> reads, taken from a full image of StateSize  *)
(* bytes.  A read that ends early has stored the bytes it got, in order,   *)
(* over the raw bytes of the fields, and has left the rest of the object   *)
(* as it was: PartialImage is the image that the fields then hold.         *)
(***************************************************************************)
StreamFields(s, is) ==
  [s EXCEPT
     !.pc = LEValue(Rd(is, 0, 2), FALSE),
     !.sp = LEValue(Rd(is, 2, 2), FALSE),
     !.index = LEValue(Rd(is, 4, 2), FALSE),
     !.delay = is[7],
     !.sound = is[8],
     !.sounding = ByteBool(is[9]),
     !.crashed = ByteBool(is[10]),
     !.programmed = ByteBool(is[11]),
     !.can_draw = ByteBool(is[12]),
     !.key_wait = ByteBool(is[13]),
     !.time_budget = LEValue(Rd(is, 13, 8), TRUE),
     !.timer = LEValue(Rd(is, 21, 8), TRUE),
     !.gprf = [i \in 0..15 |-> is[29 + i + 1]],
     !.mem = [a \in {x \in 0..(MemSize - 1) : is[45 + x + 1] # 0}
                |-> is[45 + a + 1]],
     !.screen = [r \in 0..31 |-> BytesRow(Rd(is, 45 + MemSize + 8 * r, 8))]]

PartialImage(s, is) == is \o SubSeq(StreamInsert(s), Len(is) + 1, StateSize)

(* StreamExtract whose handler does not clear the state. *)
StreamExtractUncleared(s, is) ==
  IF Len(is) < StateSize
    THEN Throw(StreamFields(s, PartialImage(s, is)), "std::ios_base::failure")
  ELSE Ok(StreamFields(s, is))

StreamExtract(s, is) ==
  IF Len(is) < StateSize
    THEN Throw(clear_state(StreamFields(s, PartialImage(s, is))),
               "std::ios_base::failure")
  ELSE Ok(StreamFields(s, is))

(***************************************************************************)
(* Inputs and bounds.                                                      *)
(***************************************************************************)
MaxCalls == 4

MaxKeyCalls == 6

MaxTimeCalls == 5

MaxSecondCalls == 5

ProgLoop == << 96, 18, 18, 0 >>

ProgKey == << 96, 5, 240, 21, 243, 10, 115, 1, 18, 8 >>

ProgCall == << 34, 0 >>

ProgCallRet == << 34, 4, 0, 238, 0, 238 >>

ProgJumpLow == << 17, 0 >>

ProgJumpEnd == << 31, 255 >>

ProgJumpPast == << 96, 1, 191, 255 >>

ProgBcdEnd == << 175, 255, 240, 51 >>

ProgTimer == << 96, 1, 240, 21, 240, 24, 18, 6 >>

ProgSecond == << 96, 255, 240, 21, 18, 4 >>

Programs ==
  { << >>, ProgLoop, ProgCall, ProgCallRet, ProgJumpLow, ProgJumpEnd,
    ProgJumpPast, ProgBcdEnd }

OneCycle == billion \div DefaultFreq

Elapsed == { OneCycle, MaxDepth * OneCycle }

Freqs == { 30 }

Keys == { 7, 16 }

WaitKeys == { 7, 3 }

TimeElapsed == { 1000000, 100000000 }

TimeFreqs == { 30, 1000 }

SecondElapsed == { 5000000, 500000000, billion }

SecondFreqs == { 1000, 500 }

RandBytes == { 165 }

Garbage == { 0, 205 }

GarbageAddrs == { 0, Prog_Start, MemSize - 1 }

GarbageRow == { 0, 13, 63 }

(***************************************************************************)
(* State.  vm is the Chip8 object; lock is its _access_lock; stream holds   *)
(* the bytes of the last state save; keyboard is the key state of the      *)
(* keyboard delegate; last records the last call and what came of it; win  *)
(* sums up the run of execute_batch calls since the last other call;       *)
(* callsLeft is the number of calls still to be made; threads holds, for   *)
(* each calling thread, where it stands inside the call it is making.      *)
(***************************************************************************)
VARIABLES vm, lock, stream, keyboard, last, win, callsLeft, threads

vars == << vm, lock, stream, keyboard, last, win, callsLeft, threads >>

Called(op, arg, exc) ==
  [op |-> op, arg |-> arg, exc |-> exc, refused |-> FALSE, cycles |-> 0,
   wrapped |-> FALSE, ticks |-> 0, out |-> << >>, program |-> << >>,
   from |-> "new"]

Loaded(s, program, exc) ==
  [Called("load_program", Len(program), exc) EXCEPT
     !.program = program,
     !.from = IF s.crashed THEN "crashed"
              ELSE IF s.key_wait THEN "key_wait"
              ELSE IF s.programmed THEN "programmed"
              ELSE "new"]

Window(s) ==
  [elapsed |-> 0, cycles |-> 0, budget0 |-> s.time_budget,
   delay0 |-> s.delay, sound0 |-> s.sound, written |-> FALSE,
   failed |-> FALSE]

IdleThreads ==
  [run |-> [at |-> "idle", left |-> 0, cycle_period |-> 0, arg |-> 0,
            cycles |-> 0],
   load |-> [at |-> "idle", program |-> << >>],
   key |-> [at |-> "idle", key |-> no_key, instruction |-> 0],
   overlap |-> FALSE]

Constructed(g) ==
  [pc |-> 0, sp |-> 0, index |-> 0, delay |-> 0, sound |-> 0,
   sounding |-> FALSE, crashed |-> FALSE, programmed |-> FALSE,
   can_draw |-> TRUE, key_wait |-> FALSE,
   time_budget |-> 0, timer |-> 0,
   gprf |-> [i \in 0..15 |-> g],
   mem |-> [a \in (IF g = 0 THEN {} ELSE GarbageAddrs) |-> g],
   screen |-> [r \in 0..31 |-> IF g = 0 THEN {} ELSE GarbageRow],
   freq |-> DefaultFreq, pressed_key |-> no_key]

InitWith(n) ==
  /\ \E g \in Garbage : vm = Constructed(g)
  /\ lock = "free"
  /\ stream = << >>
  /\ keyboard = {}
  /\ last = Called("construct", 0, "none")
  /\ win = Window(Constructed(0))
  /\ callsLeft = n
  /\ threads = IdleThreads

Init == InitWith(MaxCalls)

(***************************************************************************)
(* The public operations, each called to completion by a single caller.    *)
(* An operation that locks _access_lock cannot proceed while it is held.   *)
(***************************************************************************)
LoadProgram(program) ==
  /\ callsLeft > 0
  /\ callsLeft' = callsLeft - 1
  /\ IF Len(program) > Max_Prog_Size
       THEN /\ last' = Loaded(vm, program, "std::invalid_argument")
            /\ UNCHANGED << vm, lock >>
       ELSE /\ lock = "free"
            /\ vm' = load_program(vm, program)
            /\ last' = Loaded(vm, program, "none")
            /\ UNCHANGED lock
  /\ win' = Window(vm')
  /\ UNCHANGED << stream, keyboard, threads >>

Returned(r, elapsed_time) ==
  /\ vm' = r.s
  /\ lock' = IF r.lock = "held" THEN "held" ELSE lock
  /\ last' = [op |-> "execute_batch", arg |-> elapsed_time,
              exc |-> r.exc, refused |-> r.refused, cycles |-> r.cycles,
              wrapped |-> r.wrapped, ticks |-> r.ticks, out |-> r.out,
              program |-> << >>, from |-> "new"]
  /\ win' = [win EXCEPT !.elapsed = IF @ > billion THEN @ ELSE @ + elapsed_time,
                        !.cycles = @ + r.cycles,
                        !.written = @ \/ r.written,
                        !.failed = @ \/ r.exc # "none"]

ExecuteBatch(elapsed_time, rnd) ==
  /\ callsLeft > 0
  /\ callsLeft' = callsLeft - 1
  /\ vm.crashed \/ lock = "free"
  /\ Returned(execute_batch(vm, elapsed_time, keyboard, rnd), elapsed_time)
  /\ UNCHANGED << stream, keyboard, threads >>

Frequency(value) ==
  /\ callsLeft > 0
  /\ callsLeft' = callsLeft - 1
  /\ lock = "free"
  /\ vm' = [vm EXCEPT !.freq = value]
  /\ last' = Called("frequency", value, "none")
  /\ win' = Window(vm')
  /\ UNCHANGED << lock, stream, keyboard, threads >>

KeyPressed(key) ==
  /\ callsLeft > 0
  /\ callsLeft' = callsLeft - 1
  /\ LET r == key_pressed(vm, key)
     IN /\ vm' = r.s
        /\ last' = Called("key_pressed", key, r.exc)
  /\ win' = Window(vm')
  /\ keyboard' = IF key <= 15 THEN keyboard \cup {key} ELSE keyboard
  /\ UNCHANGED << lock, stream, threads >>

KeyReleased(key) ==
  /\ callsLeft > 0
  /\ callsLeft' = callsLeft - 1
  /\ LET r == key_released(vm, key)
     IN /\ vm' = r.s
        /\ last' = Called("key_released", key, r.exc)
  /\ win' = Window(vm')
  /\ keyboard' = keyboard \ {key}
  /\ UNCHANGED << lock, stream, threads >>

Save ==
  /\ callsLeft > 0
  /\ callsLeft' = callsLeft - 1
  /\ lock = "free"
  /\ stream' = StreamInsert(vm)
  /\ last' = Called("save", 0, "none")
  /\ win' = Window(vm)
  /\ UNCHANGED << vm, lock, keyboard, threads >>

Restore ==
  /\ callsLeft > 0
  /\ callsLeft' = callsLeft - 1
  /\ lock = "free"
  /\ LET r == StreamExtract(vm, stream)
     IN /\ vm' = r.s
        /\ last' = Called("restore", 0, r.exc)
  /\ win' = Window(vm')
  /\ UNCHANGED << lock, stream, keyboard, threads >>

Next ==
  \/ \E p \in Programs : LoadProgram(p)
  \/ \E e \in Elapsed, rnd \in RandBytes : ExecuteBatch(e, rnd)
  \/ \E v \in Freqs : Frequency(v)
  \/ \E k \in Keys : KeyPressed(k)
  \/ \E k \in Keys : KeyReleased(k)
  \/ Save
  \/ Restore

Spec == Init /\ [][Next]_vars

(***************************************************************************)
(* The key-wait scenario: one program that waits for a key.                *)
(***************************************************************************)
InitKey == InitWith(MaxKeyCalls)

NextKey ==
  \/ LoadProgram(ProgKey)
  \/ \E e \in Elapsed, rnd \in RandBytes : ExecuteBatch(e, rnd)
  \/ \E k \in WaitKeys : KeyPressed(k)
  \/ \E k \in WaitKeys : KeyReleased(k)

SpecKey == InitKey /\ [][NextKey]_vars

(***************************************************************************)
(* Timing: a program that sets both timers, run at several frequencies.    *)
(***************************************************************************)
InitTime == InitWith(MaxTimeCalls)

NextTime ==
  \/ LoadProgram(ProgTimer)
  \/ \E e \in TimeElapsed, rnd \in RandBytes : ExecuteBatch(e, rnd)
  \/ \E v \in TimeFreqs : Frequency(v)

SpecTime == InitTime /\ [][NextTime]_vars

InitSecond == InitWith(MaxSecondCalls)

NextSecond ==
  \/ LoadProgram(ProgSecond)
  \/ \E e \in SecondElapsed, rnd \in RandBytes : ExecuteBatch(e, rnd)
  \/ \E v \in SecondFreqs : Frequency(v)

SpecSecond == InitSecond /\ [][NextSecond]_vars


(***************************************************************************)
(* Concurrent callers.  Three threads call into one VM: run calls          *)
(* execute_batch, load calls load_program, key calls key_pressed and       *)
(* key_released.  A call is a sequence of steps, one per statement that    *)
(* reads or writes the VM, and steps of different threads interleave.      *)
(* std::mutex::lock is taken only when the lock is free.  key_pressed and  *)
(* key_released take no lock, so their steps run whoever holds it.         *)
(* threads.overlap is set while the calls of the load and key threads      *)
(* have overlapped in time and no instruction cycle has run since.         *)
(***************************************************************************)
MaxConcCalls == 4

ConcPrograms == { ProgKey, << >> }

ConcElapsed == { 4 * OneCycle }

ConcKeys == { 7 }

InitConc == InitWith(MaxConcCalls)

BatchCalled(elapsed_time, exc, refused, cycles) ==
  [Called("execute_batch", elapsed_time, exc) EXCEPT !.refused = refused,
                                                     !.cycles = cycles]

EbBegin(elapsed_time) ==
  /\ callsLeft > 0
  /\ callsLeft' = callsLeft - 1
  /\ threads.run.at = "idle"
  /\ IF vm.crashed
       THEN /\ last' = BatchCalled(elapsed_time, "Chip8Error*", TRUE, 0)
            /\ UNCHANGED << vm, lock, threads >>
       ELSE /\ lock = "free"
            /\ lock' = "held"
            /\ IF vm.freq = 0
                 THEN /\ last' = BatchCalled(elapsed_time, "SIGFPE", FALSE, 0)
                      /\ UNCHANGED << vm, threads >>
                 ELSE /\ vm' = [vm EXCEPT !.time_budget = @ + elapsed_time]
                      /\ threads' =
                           [threads EXCEPT !.run =
                              [at |-> "loop",
                               left |-> TruncDiv(vm.time_budget + elapsed_time,
                                                 billion \div vm.freq),
                               cycle_period |-> billion \div vm.freq,
                               arg |-> elapsed_time, cycles |-> 0]]
                      /\ UNCHANGED last
  /\ UNCHANGED << stream, keyboard, win >>

EbCycle(rnd) ==
  /\ threads.run.at = "loop"
  /\ threads.run.left > 0
  /\ LET r == execute_cycle(vm, threads.run.cycle_period, keyboard, rnd)
     IN IF r.exc = "none"
          THEN /\ vm' = [r.s EXCEPT !.time_budget = @ - threads.run.cycle_period]
               /\ threads' = [threads EXCEPT !.run.left = @ - 1,
                                             !.run.cycles = @ + 1,
                                             !.overlap = FALSE]
               /\ UNCHANGED << lock, last >>
        ELSE IF r.exc = "Chip8Error"
          THEN /\ vm' = r.s
               /\ lock' = "free"
               /\ threads' = [threads EXCEPT !.run.at = "caught",
                                             !.overlap = FALSE]
               /\ UNCHANGED last
        ELSE /\ vm' = r.s
             /\ threads' = [threads EXCEPT !.run = IdleThreads.run,
                                           !.overlap = FALSE]
             /\ last' = BatchCalled(threads.run.arg, r.exc, FALSE,
                                    threads.run.cycles)
             /\ UNCHANGED lock
  /\ UNCHANGED << stream, keyboard, win, callsLeft >>

EbCrashed ==
  /\ threads.run.at = "caught"
  /\ vm' = [vm EXCEPT !.crashed = TRUE]
  /\ threads' = [threads EXCEPT !.run = IdleThreads.run]
  /\ last' = BatchCalled(threads.run.arg, "Chip8Error", FALSE, threads.run.cycles)
  /\ UNCHANGED << lock, stream, keyboard, win, callsLeft >>

EbEnd ==
  /\ threads.run.at = "loop"
  /\ threads.run.left = 0
  /\ lock' = "free"
  /\ threads' = [threads EXCEPT !.run = IdleThreads.run]
  /\ last' = BatchCalled(threads.run.arg, "none", FALSE, threads.run.cycles)
  /\ UNCHANGED << vm, stream, keyboard, win, callsLeft >>

LpBegin(program) ==
  /\ callsLeft > 0
  /\ callsLeft' = callsLeft - 1
  /\ threads.load.at = "idle"
  /\ IF Len(program) > Max_Prog_Size
       THEN /\ last' = Loaded(vm, program, "std::invalid_argument")
            /\ UNCHANGED << lock, threads >>
       ELSE /\ lock = "free"
            /\ lock' = "held"
            /\ threads' = [threads EXCEPT
                             !.load = [at |-> "locked", program |-> program],
                             !.overlap = threads.key.at # "idle"]
            /\ UNCHANGED last
  /\ UNCHANGED << vm, stream, keyboard, win >>

LpClear ==
  /\ threads.load.at = "locked"
  /\ vm' = clear_state(vm)
  /\ threads' = [threads EXCEPT !.load.at = "cleared"]
  /\ UNCHANGED << lock, stream, keyboard, last, win, callsLeft >>

LpCopy ==
  /\ threads.load.at = "cleared"
  /\ vm' = [vm EXCEPT
              !.mem = memcpy(memcpy(@, font_off, font), Prog_Start,
                             threads.load.program),
              !.programmed = TRUE]
  /\ threads' = [threads EXCEPT !.load.at = "copied"]
  /\ UNCHANGED << lock, stream, keyboard, last, win, callsLeft >>

LpEnd ==
  /\ threads.load.at = "copied"
  /\ lock' = "free"
  /\ threads' = [threads EXCEPT !.load = IdleThreads.load]
  /\ last' = Loaded(vm, threads.load.program, "none")
  /\ UNCHANGED << vm, stream, keyboard, win, callsLeft >>

KpBegin(key) ==
  /\ callsLeft > 0
  /\ callsLeft' = callsLeft - 1
  /\ threads.key.at = "idle"
  /\ IF key > 15
       THEN /\ last' = Called("key_pressed", key, "std::domain_error*")
            /\ UNCHANGED threads
       ELSE IF ~vm.key_wait
         THEN /\ last' = Called("key_pressed", key, "none")
              /\ threads' = [threads EXCEPT !.overlap = threads.load.at # "idle"]
       ELSE /\ threads' = [threads EXCEPT
                             !.key = [at |-> "waited", key |-> key,
                                      instruction |-> 0],
                             !.overlap = threads.load.at # "idle"]
            /\ UNCHANGED last
  /\ keyboard' = IF key <= 15 THEN keyboard \cup {key} ELSE keyboard
  /\ UNCHANGED << vm, lock, stream, win >>

KpFetch ==
  /\ threads.key.at = "waited"
  /\ LET hw == get_hword(vm, vm.pc)
     IN IF hw.exc # "none"
          THEN /\ threads' = [threads EXCEPT !.key = IdleThreads.key]
               /\ last' = Called("key_pressed", threads.key.key, hw.exc)
        ELSE /\ threads' = [threads EXCEPT !.key.at = "fetched",
                                           !.key.instruction = hw.v]
             /\ UNCHANGED last
  /\ UNCHANGED << vm, lock, stream, keyboard, win, callsLeft >>

KpStore ==
  /\ threads.key.at = "fetched"
  /\ vm' = [vm EXCEPT !.gprf[instr_b(threads.key.instruction)] = threads.key.key]
  /\ threads' = [threads EXCEPT !.key.at = "stored"]
  /\ UNCHANGED << lock, stream, keyboard, last, win, callsLeft >>

KpAdvance ==
  /\ threads.key.at = "stored"
  /\ vm' = [vm EXCEPT !.pc = U16(@ + 2)]
  /\ threads' = [threads EXCEPT !.key.at = "advanced"]
  /\ UNCHANGED << lock, stream, keyboard, last, win, callsLeft >>

KpEnd ==
  /\ threads.key.at = "advanced"
  /\ vm' = [vm EXCEPT !.pressed_key = threads.key.key]
  /\ threads' = [threads EXCEPT !.key = IdleThreads.key]
  /\ last' = Called("key_pressed", threads.key.key, "none")
  /\ UNCHANGED << lock, stream, keyboard, win, callsLeft >>

KrCall(key) ==
  /\ threads.key.at = "idle"
  /\ KeyReleased(key)

NextConc ==
  \/ \E e \in ConcElapsed : EbBegin(e)
  \/ \E rnd \in RandBytes : EbCycle(rnd)
  \/ EbCrashed
  \/ EbEnd
  \/ \E p \in ConcPrograms : LpBegin(p)
  \/ LpClear
  \/ LpCopy
  \/ LpEnd
  \/ \E k \in ConcKeys : KpBegin(k)
  \/ KpFetch
  \/ KpStore
  \/ KpAdvance
  \/ KpEnd
  \/ \E k \in ConcKeys : KrCall(k)

SpecConc == InitConc /\ [][NextConc]_vars

(***************************************************************************)
(* Properties.                                                             *)
(***************************************************************************)
StackDepth(s) == s.sp \div 2

StackBytes(s) == [a \in 0..(font_off - 1) |-> MemAt(s.mem, a)]

NextFunc(s) == get_instr_func(get_hword(s, s.pc).v)

RunsCycle(s, elapsed_time) ==
  /\ ~s.crashed
  /\ s.freq >= 1
  /\ (s.time_budget + elapsed_time) \div (billion \div s.freq) >= 1

Fetches(s, f) ==
  /\ ~s.key_wait
  /\ s.pc >= Prog_Start
  /\ s.pc + 1 < MemSize
  /\ NextFunc(s) = f

Ran == last.op = "execute_batch" /\ ~last.refused

(* C1: every fatal error raised while execute_batch runs a cycle leaves    *)
(* crashed set and reaches the caller as a Chip8Error: whenever a batch    *)
(* that was not refused ends in an error, crashed is true and the error is *)
(* a Chip8Error object.                                                    *)
C1_FatalErrorLatchesCrashed ==
  (Ran /\ last.exc # "none") => (vm.crashed /\ last.exc = "Chip8Error")

(* C2: once crashed is true, an execute_batch call fails at once, runs no  *)
(* cycle, sends no notification and changes nothing of the VM; and crashed *)
(* stays true across execute_batch, key_pressed, key_released and          *)
(* frequency calls.                                                        *)
C2_CrashedRefusesAndLatches ==
  [][vm.crashed =>
       /\ (last'.op = "execute_batch" =>
             /\ vm' = vm
             /\ last'.exc # "none"
             /\ last'.cycles = 0
             /\ last'.out = << >>)
       /\ (last'.op \in {"execute_batch", "key_pressed", "key_released",
                        "frequency"} => vm'.crashed)]_vars

C2_Witness ==
  /\ vm.crashed
  /\ last.op = "execute_batch"
  /\ last.refused

(* C3: key_pressed runs atomically with respect to load_program under the *)
(* access lock: when a key_pressed call and a load_program call have       *)
(* overlapped in time and both have returned, with no instruction cycle    *)
(* run since, PC is 0x200 and all registers are 0.                         *)
C3_KeyPressedWithLoadProgram ==
  (threads.overlap /\ threads.key.at = "idle" /\ threads.load.at = "idle")
    => (vm.pc = Prog_Start /\ \A i \in 0..15 : vm.gprf[i] = 0)

(* C4: in every reachable state, restoring the bytes that a state save     *)
(* writes into the same VM succeeds and leaves every field of the VM as it *)
(* was.                                                                    *)
C4_SaveRestoreRoundTrip ==
  StreamExtract(vm, StreamInsert(vm)) = Ok(vm)

C4_Witness ==
  /\ last.op = "restore"
  /\ last.exc = "none"
  /\ stream = StreamInsert(vm)
  /\ vm.programmed
  /\ vm.sp > 0

(* C5: while a key is awaited and none has been delivered, PC stays at the *)
(* FX0A instruction and a batch changes neither PC nor any register but    *)
(* runs its cycles and counts the timers down by the 60 Hz ticks crossed;  *)
(* key_pressed(k) then puts k in VX and leaves PC two past the FX0A.        *)
AwaitingKey(s) == s.key_wait /\ s.pressed_key = no_key

Lowered(v, ticks) == IF v > ticks THEN v - ticks ELSE 0

C5_KeyWaitHoldsThenDelivers ==
  [][AwaitingKey(vm) =>
       /\ NextFunc(vm) = "in_keyd"
       /\ (last'.op = "execute_batch" =>
             /\ vm'.pc = vm.pc
             /\ vm'.gprf = vm.gprf
             /\ vm'.key_wait
             /\ last'.cycles = (vm.time_budget + last'.arg)
                                 \div (billion \div vm.freq)
             /\ last'.ticks = (vm.timer + last'.cycles * (billion \div vm.freq))
                                \div timer_period
             /\ vm'.delay = Lowered(vm.delay, last'.ticks)
             /\ vm'.sound = Lowered(vm.sound, last'.ticks))
       /\ (last'.op = "key_pressed" /\ last'.arg <= 15 =>
             /\ vm'.gprf = [vm.gprf EXCEPT
                              ![instr_b(get_hword(vm, vm.pc).v)] = last'.arg]
             /\ vm'.pc = vm.pc + 2)]_vars

C5_Witness ==
  /\ last.op = "key_pressed"
  /\ last.arg = 7
  /\ vm.pressed_key = 7
  /\ vm.gprf[3] = 7
  /\ vm.pc = Prog_Start + 6
  /\ vm.delay < vm.gprf[0]

(* C6 as stated: a key_pressed(k) call with k <= 15 made while a key is    *)
(* awaited clears key_wait.                                                *)
C6_KeyPressedClearsWait ==
  [][(vm.key_wait /\ last'.op = "key_pressed" /\ last'.arg <= 15)
       => ~vm'.key_wait]_vars

(* C6 amended: a key_pressed(k) call with k <= 15 made while key_wait is   *)
(* set records k as the pressed key and leaves key_wait set; batches run   *)
(* after it execute no instruction; key_wait is cleared by key_released of *)
(* the recorded key and by no other key_released, without moving PC.       *)
C6_KeyReleasedClearsWait ==
  [][vm.key_wait =>
       /\ (last'.op = "key_pressed" /\ last'.arg <= 15 =>
             vm'.key_wait /\ vm'.pressed_key = last'.arg)
       /\ (last'.op = "execute_batch" =>
             vm'.key_wait /\ vm'.pc = vm.pc /\ vm'.gprf = vm.gprf)
       /\ (last'.op = "key_released" =>
             /\ vm'.key_wait = (last'.arg # vm.pressed_key)
             /\ vm'.pc = vm.pc
             /\ vm'.gprf = vm.gprf)]_vars

C6_Witness ==
  /\ last.op = "key_released"
  /\ last.arg = 7
  /\ ~vm.key_wait
  /\ vm.gprf[3] = 7
  /\ vm.pc = Prog_Start + 6

(* C7: the passage of time never makes a timer wrap: no cycle of a batch   *)
(* leaves a timer, by its 60 Hz update alone, above the value it had.      *)
C7_TimersNeverWrap == Ran => ~last.wrapped

(* C8 as stated: at 1000 Hz, with the delay timer at 61 or more and not    *)
(* written meanwhile, batches whose elapsed times sum to one second run    *)
(* 1000 cycles and lower the timer by 59 to 61.                            *)
C8_OneSecond ==
  (Ran /\ vm.freq = 1000 /\ win.elapsed = billion /\ win.delay0 >= 61
     /\ ~win.written)
    => (win.cycles = 1000 /\ (win.delay0 - vm.delay) \in 59..61)

(* C8 amended: the same, provided the time budget left over at the start   *)
(* of the second is below one cycle period and no cycle fails.             *)
C8_OneSecondFromShortBudget ==
  (Ran /\ vm.freq = 1000 /\ win.elapsed = billion /\ win.delay0 >= 61
     /\ ~win.written /\ ~win.failed /\ win.budget0 < billion \div 1000)
    => (win.cycles = 1000 /\ (win.delay0 - vm.delay) \in 59..61)

C8_Witness ==
  /\ Ran
  /\ vm.freq = 1000
  /\ win.elapsed = billion
  /\ last.arg < billion
  /\ win.delay0 >= 61
  /\ ~win.written
  /\ win.budget0 > 0
  /\ win.budget0 < billion \div 1000
  /\ win.cycles = 1000

(* C9: a batch that runs without error at frequency f >= 1 executes        *)
(* (budget + elapsed) \div P cycles, P = 10^9 \div f, and leaves the       *)
(* remainder as the budget; a run of such batches that starts with an      *)
(* empty budget has executed (total elapsed) \div P cycles.                *)
C9_BatchCycleCount ==
  [][(last'.op = "execute_batch" /\ ~last'.refused /\ last'.exc = "none"
        /\ vm.freq >= 1 /\ last'.arg >= 0) =>
       /\ last'.cycles = (vm.time_budget + last'.arg) \div (billion \div vm.freq)
       /\ vm'.time_budget = (vm.time_budget + last'.arg) % (billion \div vm.freq)
       /\ (win.budget0 = 0 /\ ~win.failed /\ win.elapsed <= billion) =>
            win'.cycles = win'.elapsed \div (billion \div vm.freq)]_vars

C9_Witness ==
  /\ Ran
  /\ last.exc = "none"
  /\ last.cycles > 0
  /\ win.cycles > last.cycles
  /\ win.budget0 = 0
  /\ vm.time_budget > 0
  /\ vm.freq = 30

(* C10: the stack depth is always between 0 and 16; a batch whose first    *)
(* cycle executes a call at depth 16 ends in a Chip8Error with the VM      *)
(* crashed and SP and the 16 stored return addresses unchanged; a batch    *)
(* whose first cycle executes a return at depth 0 ends the same way.       *)
C10_StackBounds ==
  [][/\ vm'.sp = 2 * StackDepth(vm')
     /\ StackDepth(vm') \in 0..MaxDepth
     /\ (last'.op = "execute_batch" /\ RunsCycle(vm, last'.arg)
           /\ Fetches(vm, "in_call") /\ StackDepth(vm) = MaxDepth) =>
          /\ last'.exc = "Chip8Error"
          /\ last'.cycles = 0
          /\ vm'.crashed
          /\ vm'.sp = vm.sp
          /\ StackBytes(vm') = StackBytes(vm)
     /\ (last'.op = "execute_batch" /\ RunsCycle(vm, last'.arg)
           /\ Fetches(vm, "in_rts") /\ StackDepth(vm) = 0) =>
          /\ last'.exc = "Chip8Error"
          /\ last'.cycles = 0
          /\ vm'.crashed
          /\ vm'.sp = 0]_vars

C10_Witness ==
  /\ Ran
  /\ last.exc = "Chip8Error"
  /\ last.cycles = 0
  /\ vm.crashed
  /\ StackDepth(vm) = MaxDepth
  /\ \A d \in 0..(MaxDepth - 1) : get_hword(vm, 2 * d).v = Prog_Start

(***************************************************************************)
(* Single instructions.  The VM starts with one of a few short programs    *)
(* loaded and is run one cycle at a time, at the default frequency (where  *)
(* a cycle is shorter than a 60 Hz period, so that most cycles may not     *)
(* draw) or at 60 Hz (where every cycle may draw), with key 0 up or down.  *)
(***************************************************************************)
MaxInstrCalls == 7

ProgSkipImm == << 48, 0, 0, 0, 64, 1, 0, 0, 80, 16 >>

ProgSkipReg == << 97, 1, 145, 0, 0, 0, 224, 161, 224, 158, 224, 158 >>

ProgSkipNot == << 48, 1, 64, 0, 96, 1, 80, 16, 144, 0 >>

ProgDraw == << 208, 1, 0, 224 >>

ProgArith == << 96, 200, 113, 100, 128, 20, 128, 21, 128, 23, 128, 16 >>

ProgLogic == << 96, 170, 129, 1, 129, 2, 129, 3, 128, 22, 128, 30 >>

ProgMisc == << 163, 0, 192, 255, 240, 7, 240, 21, 240, 24, 240, 30 >>

ProgMem == << 163, 0, 240, 51, 241, 85, 241, 101, 240, 41, 0, 224 >>

InstrPrograms ==
  { ProgSkipImm, ProgSkipReg, ProgSkipNot, ProgDraw, ProgArith, ProgLogic,
    ProgMisc, ProgMem }

InstrElapsed == { OneCycle, timer_period }

InstrFreqs == { 60 }

InstrKeys == { 0 }

InitLoaded(programs, n) ==
  /\ \E program \in programs :
       /\ vm = load_program(Constructed(0), program)
       /\ last = Loaded(Constructed(0), program, "none")
  /\ lock = "free"
  /\ stream = << >>
  /\ keyboard = {}
  /\ win = Window(Constructed(0))
  /\ callsLeft = n
  /\ threads = IdleThreads

InitInstr == InitLoaded(InstrPrograms, MaxInstrCalls)

NextInstr ==
  \/ \E e \in InstrElapsed, rnd \in RandBytes : ExecuteBatch(e, rnd)
  \/ \E v \in InstrFreqs : Frequency(v)
  \/ \E k \in InstrKeys : KeyPressed(k)

SpecInstr == InitInstr /\ [][NextInstr]_vars

(***************************************************************************)
(* A step that is an execute_batch call which ran exactly one cycle, in    *)
(* which the instruction at PC was executed without raising anything.      *)
(***************************************************************************)
OneInstruction ==
  /\ last'.op = "execute_batch"
  /\ last'.cycles = 1
  /\ last'.exc = "none"
  /\ ~vm.key_wait

SetsPc == { "in_rts", "in_jump", "in_call", "in_jumpi", "in_keyd" }

SkipTaken(s, instruction, keys) ==
  LET f == get_instr_func(instruction)
      vx == s.gprf[instr_b(instruction)]
      vy == s.gprf[instr_c(instruction)]
  IN \/ f = "in_ske" /\ vx = instr_imm(instruction)
     \/ f = "in_skne" /\ vx # instr_imm(instruction)
     \/ f = "in_skre" /\ vx = vy
     \/ f = "in_skrne" /\ vx # vy
     \/ f = "in_skpr" /\ vx \in keys
     \/ f = "in_skup" /\ vx \notin keys

DrawDeferred(s) ==
  /\ NextFunc(s) = "in_draw"
  /\ s.timer + (billion \div s.freq) < timer_period

(* C11 as stated: for every executed instruction other than 00EE, 1NNN,    *)
(* 2NNN, BNNN and FX0A, PC after the cycle is PC before the cycle plus 2.  *)
C11_PcAdvanceByTwo ==
  [][OneInstruction /\ NextFunc(vm) \notin SetsPc => vm'.pc = vm.pc + 2]_vars

(* C11: for an executed instruction other than 00EE, 1NNN, 2NNN, BNNN and  *)
(* FX0A, PC after the cycle is PC before plus 4 when the instruction is a  *)
(* skip whose condition holds (3XNN, 4XNN, 5XY0, 9XY0, EX9E, EXA1), is PC  *)
(* before when it is DXYN in a cycle that does not complete a 60 Hz        *)
(* period, and is PC before plus 2 in every other case.                    *)
C11_PcAdvance ==
  [][OneInstruction /\ NextFunc(vm) \notin SetsPc =>
       vm'.pc = IF SkipTaken(vm, get_hword(vm, vm.pc).v, keyboard)
                  THEN vm.pc + 4
                ELSE IF DrawDeferred(vm) THEN vm.pc
                ELSE vm.pc + 2]_vars

C11_Witness ==
  /\ Ran
  /\ last.cycles = 1
  /\ last.exc = "none"
  /\ win.cycles = 1
  /\ MemAt(vm.mem, Prog_Start) = 48
  /\ vm.pc = Prog_Start + 4


(***************************************************************************)
(* Arithmetic.  Each program loads a value into VX, a value into VY, and   *)
(* then adds or subtracts them; X and Y may be the same register, and      *)
(* either may be VF.                                                       *)
(***************************************************************************)
MaxAluCalls == 3

AluValues ==
  { 0, 1, 2, 15, 16, 99, 100, 127, 128, 155, 156, 200, 240, 254, 255 }

AluRegs == { 0, 3, 15 }

AluOps == { 4, 5, 7 }

AluProgram(x, y, a, b, op) ==
  << 96 + x, a, 96 + y, b, 128 + x, 16 * y + op >>

AluPrograms ==
  { AluProgram(x, y, a, b, op) :
      x \in AluRegs, y \in AluRegs, a \in AluValues, b \in AluValues,
      op \in AluOps }

InitAlu == InitLoaded(AluPrograms, MaxAluCalls)

NextAlu == \E rnd \in RandBytes : ExecuteBatch(OneCycle, rnd)

SpecAlu == InitAlu /\ [][NextAlu]_vars

RegX(s) == instr_b(get_hword(s, s.pc).v)

RegY(s) == instr_c(get_hword(s, s.pc).v)

(* C12: executing 8XY4 leaves VF = 1 if Vx + Vy > 255 and VF = 0           *)
(* otherwise and, when X is not F, leaves Vx = (Vx + Vy) mod 256, for all  *)
(* values of Vx and Vy and all register indices X and Y.                   *)
C12_AddCarry ==
  [][OneInstruction /\ NextFunc(vm) = "in_addr" =>
       /\ vm'.gprf[15] = IF vm.gprf[RegX(vm)] + vm.gprf[RegY(vm)] > 255
                           THEN 1 ELSE 0
       /\ (RegX(vm) # 15 =>
             vm'.gprf[RegX(vm)] =
               (vm.gprf[RegX(vm)] + vm.gprf[RegY(vm)]) % 256)]_vars

C12_Witness ==
  /\ Ran
  /\ win.cycles = 3
  /\ get_hword(vm, Prog_Start + 4).v = 32820
  /\ MemAt(vm.mem, Prog_Start + 1) = 200
  /\ MemAt(vm.mem, Prog_Start + 3) = 100
  /\ vm.gprf[0] = 44
  /\ vm.gprf[15] = 1

MaxBcdCalls == 3

BcdValues == 0..255

BcdRegs == { 0, 7 }

BcdAddrs == { 0, 768, MemSize - 3 }

BcdProgram(x, v, addr) ==
  << 96 + x, v, 160 + (addr \div 256), addr % 256, 240 + x, 51 >>

BcdPrograms ==
  { BcdProgram(x, v, addr) : x \in BcdRegs, v \in BcdValues, addr \in BcdAddrs }

InitBcd == InitLoaded(BcdPrograms, MaxBcdCalls)

NextBcd == \E rnd \in RandBytes : ExecuteBatch(OneCycle, rnd)

SpecBcd == InitBcd /\ [][NextBcd]_vars

(* C14: for every value v of VX in 0..255 and every I with I + 2 <= 4095,  *)
(* executing FX33 stores v / 100 at mem[I], (v / 10) mod 10 at mem[I+1]    *)
(* and v mod 10 at mem[I+2].                                               *)
C14_BcdDigits ==
  [][/\ last'.op = "execute_batch"
     /\ last'.cycles = 1
     /\ ~vm.key_wait
     /\ NextFunc(vm) = "in_bcd"
     /\ vm.index + 2 <= MemSize - 1
     => /\ last'.exc = "none"
        /\ MemAt(vm'.mem, vm.index) = vm.gprf[RegX(vm)] \div 100
        /\ MemAt(vm'.mem, vm.index + 1) = (vm.gprf[RegX(vm)] \div 10) % 10
        /\ MemAt(vm'.mem, vm.index + 2) = vm.gprf[RegX(vm)] % 10]_vars

C14_Witness ==
  /\ Ran
  /\ win.cycles = 3
  /\ get_hword(vm, Prog_Start + 4).v = 63283
  /\ vm.gprf[7] = 255
  /\ vm.index = MemSize - 3
  /\ MemAt(vm.mem, MemSize - 3) = 2
  /\ MemAt(vm.mem, MemSize - 2) = 5
  /\ MemAt(vm.mem, MemSize - 1) = 5


(***************************************************************************)
(* Loading.  Programs of several lengths, among them the longest that      *)
(* fits, are loaded into a VM that is new, running, waiting for a key or   *)
(* crashed.                                                                *)
(***************************************************************************)
MaxLoadCalls == 5

ProgOdd == << 96, 18, 18 >>

ProgOfSize(n) ==
  [i \in 1..n |-> IF i = 1 THEN 18
                  ELSE IF i = 3 THEN 1
                  ELSE IF i = n THEN 255
                  ELSE 0]

ProgFull == ProgOfSize(MemSize - Prog_Start)

ProgOver == ProgOfSize(MemSize - Prog_Start + 1)

ProgOverEven == ProgOfSize(MemSize - Prog_Start + 2)

LoadPrograms == { << >>, ProgOdd, ProgKey, ProgFull, ProgOver, ProgOverEven }

LoadElapsed == { OneCycle, 4 * OneCycle }

InitLoad == InitWith(MaxLoadCalls)

NextLoad ==
  \/ \E p \in LoadPrograms : LoadProgram(p)
  \/ \E e \in LoadElapsed, rnd \in RandBytes : ExecuteBatch(e, rnd)

SpecLoad == InitLoad /\ [][NextLoad]_vars

LoadedByte(program, a) ==
  IF a >= Prog_Start /\ a < Prog_Start + Len(program)
    THEN program[a - Prog_Start + 1]
  ELSE IF a >= font_off /\ a < font_off + Len(font)
    THEN font[a - font_off + 1]
  ELSE 0

(* C15: after load_program(p) succeeds from any prior state, crashed and   *)
(* key-waiting ones included, mem[0x200 .. 0x200+len(p)) is p, mem[32..112)*)
(* is the font, every other memory byte is 0, all registers, I, SP, both   *)
(* timers, both time accumulators and the screen are 0, PC is 0x200,       *)
(* crashed, sounding and key_wait are false, and programmed is true.       *)
C15_LoadProgramState ==
  last.op = "load_program" /\ last.exc = "none" =>
    /\ \A a \in 0..(MemSize - 1) : MemAt(vm.mem, a) = LoadedByte(last.program, a)
    /\ Len(font) = 80
    /\ \A i \in 0..15 : vm.gprf[i] = 0
    /\ vm.index = 0
    /\ vm.sp = 0
    /\ vm.delay = 0
    /\ vm.sound = 0
    /\ vm.time_budget = 0
    /\ vm.timer = 0
    /\ \A r \in 0..31 : vm.screen[r] = {}
    /\ vm.pc = 512
    /\ ~vm.crashed
    /\ ~vm.sounding
    /\ ~vm.key_wait
    /\ vm.programmed

C15_Witness ==
  /\ last.op = "load_program"
  /\ last.exc = "none"
  /\ last.from = "crashed"
  /\ last.program = ProgFull
  /\ MemAt(vm.mem, MemSize - 1) = 255
  /\ vm.programmed

C17_LoadProgramOdd ==
  [][last'.op = "load_program" /\ Len(last'.program) % 2 = 1 =>
       /\ last'.exc = "std::invalid_argument"
       /\ vm' = vm]_vars


(***************************************************************************)
(* Decoding.  Each program is a single word, which the first cycle fetches *)
(* and decodes.                                                            *)
(***************************************************************************)
MaxDecodeCalls == 1

DecodeWords ==
  { a * 4096 + b * 256 + c * 16 + d :
      a \in 0..15, b \in { 0, 4, 7, 15 }, c \in 0..15, d \in 0..15 }

DecodePrograms == { << w \div 256, w % 256 >> : w \in DecodeWords }

InitDecode == InitLoaded(DecodePrograms, MaxDecodeCalls)

NextDecode == \E rnd \in RandBytes : ExecuteBatch(OneCycle, rnd)

SpecDecode == InitDecode /\ [][NextDecode]_vars

(***************************************************************************)
(* The handler that the declarations of Chip8.hpp document for each word.  *)
(***************************************************************************)
Documented(w) ==
  LET a == w \div 4096
      d == w % 16
      low == w % 256
  IN CASE w = 224 -> "in_clr"
       [] w = 238 -> "in_rts"
       [] a = 1 -> "in_jump"
       [] a = 2 -> "in_call"
       [] a = 3 -> "in_ske"
       [] a = 4 -> "in_skne"
       [] a = 5 /\ d = 0 -> "in_skre"
       [] a = 6 -> "in_load"
       [] a = 7 -> "in_add"
       [] a = 8 /\ d = 0 -> "in_move"
       [] a = 8 /\ d = 1 -> "in_or"
       [] a = 8 /\ d = 2 -> "in_and"
       [] a = 8 /\ d = 3 -> "in_xor"
       [] a = 8 /\ d = 4 -> "in_addr"
       [] a = 8 /\ d = 5 -> "in_sub"
       [] a = 8 /\ d = 6 -> "in_shr"
       [] a = 8 /\ d = 7 -> "in_suba"
       [] a = 8 /\ d = 14 -> "in_shl"
       [] a = 9 /\ d = 0 -> "in_skrne"
       [] a = 10 -> "in_loadi"
       [] a = 11 -> "in_jumpi"
       [] a = 12 -> "in_rand"
       [] a = 13 -> "in_draw"
       [] a = 14 /\ low = 158 -> "in_skpr"
       [] a = 14 /\ low = 161 -> "in_skup"
       [] a = 15 /\ low = 7 -> "in_moved"
       [] a = 15 /\ low = 10 -> "in_keyd"
       [] a = 15 /\ low = 21 -> "in_loadd"
       [] a = 15 /\ low = 24 -> "in_loads"
       [] a = 15 /\ low = 30 -> "in_addi"
       [] a = 15 /\ low = 41 -> "in_ldspr"
       [] a = 15 /\ low = 51 -> "in_bcd"
       [] a = 15 /\ low = 85 -> "in_stor"
       [] a = 15 /\ low = 101 -> "in_read"
       [] OTHER -> "Chip8Error"

FirstCycle ==
  /\ last'.op = "execute_batch"
  /\ ~last'.refused
  /\ RunsCycle(vm, last'.arg)
  /\ ~vm.key_wait
  /\ vm.pc = Prog_Start

C19_SysIsNoOp ==
  [][/\ FirstCycle
     /\ get_hword(vm, vm.pc).v \in 1..4095
     /\ get_hword(vm, vm.pc).v \notin { 224, 238 }
     => /\ last'.exc = "none"
        /\ ~vm'.crashed
        /\ vm'.pc = vm.pc + 2
        /\ vm'.gprf = vm.gprf
        /\ vm'.mem = vm.mem
        /\ vm'.screen = vm.screen
        /\ vm'.index = vm.index
        /\ vm'.sp = vm.sp]_vars


(***************************************************************************)
(* The looping program 60 12 12 00, run by batches of several lengths.     *)
(***************************************************************************)
MaxLoopCalls == 6

LoopElapsed == { OneCycle, 3 * OneCycle, 1000000, timer_period }

InitLoop == InitWith(MaxLoopCalls)

NextLoop ==
  \/ LoadProgram(ProgLoop)
  \/ \E e \in LoopElapsed, rnd \in RandBytes : ExecuteBatch(e, rnd)

SpecLoop == InitLoop /\ [][NextLoop]_vars

(* C20: after loading the program 60 12 12 00, after the first cycle       *)
(* V0 = 0x12 and PC = 0x202, and in every later state reached by any       *)
(* number of execute_batch calls crashed is false, V0 = 0x12 and PC is     *)
(* 0x200 or 0x202.                                                         *)
C20_LoopsForever ==
  vm.programmed /\ last.op \in { "load_program", "execute_batch" } =>
    /\ ~vm.crashed
    /\ last.exc = "none"
    /\ (win.cycles = 0 => vm.pc = 512 /\ vm.gprf[0] = 0)
    /\ (win.cycles = 1 => vm.pc = 514)
    /\ (win.cycles >= 1 => vm.gprf[0] = 18 /\ vm.pc \in { 512, 514 })
    /\ \A i \in 1..15 : vm.gprf[i] = 0

C20_Witness ==
  /\ vm.programmed
  /\ Ran
  /\ win.cycles >= 20
  /\ ~vm.crashed
  /\ vm.gprf[0] = 18
  /\ vm.pc = 512


(***************************************************************************)
(* Drawing.  Short programs that draw font glyphs, run cycle by cycle or   *)
(* two cycles at a time, at the default frequency or at 60 Hz (where every *)
(* cycle completes a 60 Hz period and so may draw).                        *)
(***************************************************************************)
MaxDrawCalls == 6

ProgGlyphZero == << 160, 0, 208, 5 >>

ProgGlyphFont == << 160, 32, 208, 5 >>

ProgGlyphLd == << 240, 41, 208, 5 >>

ProgDrawTwice == << 160, 32, 208, 5, 160, 37, 208, 5, 208, 5 >>

ProgDrawClip == << 96, 61, 97, 30, 160, 32, 208, 21, 208, 21 >>

ProgDrawVF == << 160, 32, 208, 5, 208, 5, 223, 5, 223, 5 >>

DrawPrograms ==
  { ProgGlyphZero, ProgGlyphFont, ProgGlyphLd, ProgDrawTwice, ProgDrawClip,
    ProgDrawVF }

DrawElapsed == { OneCycle, timer_period, 2 * timer_period }

DrawFreqs == { 60 }

InitDraw == InitLoaded(DrawPrograms, MaxDrawCalls)

NextDraw ==
  \/ \E e \in DrawElapsed, rnd \in RandBytes : ExecuteBatch(e, rnd)
  \/ \E v \in DrawFreqs : Frequency(v)

SpecDraw == InitDraw /\ [][NextDraw]_vars

(***************************************************************************)
(* The screen bits that a sprite byte covers when its leftmost pixel is in *)
(* column xpos: column c of a row is bit 63 - c of the row's value.        *)
(***************************************************************************)
SpriteBits(byte, xpos) ==
  { 63 - (xpos + k) : k \in { j \in 0..7 : (byte \div Pow2(7 - j)) % 2 = 1 } }
    \cap (0..63)

Blank(screen) == \A r \in 0..31 : screen[r] = {}

DrawsGlyph ==
  /\ OneInstruction
  /\ get_hword(vm, vm.pc).v = 53253
  /\ ~DrawDeferred(vm)
  /\ vm.gprf[0] = 0
  /\ vm.gprf[1] = 0
  /\ Blank(vm.screen)

(* C21 as stated: after load_program, executing A000 and then D005 with    *)
(* V0 = V1 = 0 draws the first font glyph into rows 0..4 from the leftmost *)
(* column, so that the top 8 bits of row 0 are 0xF0, and leaves VF = 0.    *)
C21_GlyphAtZero ==
  [][DrawsGlyph /\ vm.index = 0 =>
       /\ vm'.screen[0] = SpriteBits(240, 0)
       /\ vm'.gprf[15] = 0]_vars

(* C21: the font is at address 32.  After load_program, executing D005     *)
(* with V0 = V1 = 0 on a blank screen draws the five bytes at I into rows  *)
(* 0..4 from the leftmost column and leaves VF = 0: with I = 32 (set by    *)
(* A020, or by F029 with V0 = 0) these are the first font glyph F0 90 90   *)
(* 90 F0, the top 8 bits of row 0 being 0xF0; with I = 0 (set by A000)     *)
(* they are five zero bytes and the screen stays blank.                    *)
C21_GlyphAtFontOffset ==
  [][DrawsGlyph =>
       /\ vm'.gprf[15] = 0
       /\ \A r \in 0..4 :
            vm'.screen[r] = SpriteBits(MemAt(vm.mem, vm.index + r), 0)
       /\ \A r \in 5..31 : vm'.screen[r] = {}
       /\ (vm.index = 0 => Blank(vm'.screen))
       /\ (vm.index = font_off =>
             /\ vm'.screen[0] = { 60, 61, 62, 63 }
             /\ vm'.screen[1] = { 60, 63 }
             /\ vm'.screen[2] = { 60, 63 }
             /\ vm'.screen[3] = { 60, 63 }
             /\ vm'.screen[4] = { 60, 61, 62, 63 })]_vars

C21_Witness ==
  /\ Ran
  /\ last.exc = "none"
  /\ get_hword(vm, Prog_Start).v = 40992
  /\ vm.index = font_off
  /\ vm.pc = Prog_Start + 4
  /\ vm.screen[0] = { 60, 61, 62, 63 }
  /\ vm.screen[1] = { 60, 63 }
  /\ vm.gprf[15] = 0


(***************************************************************************)
(* A step that is an execute_batch call of exactly two cycles, each of     *)
(* which completes a 60 Hz period, executing the same DXYN word twice.     *)
(***************************************************************************)
TwoDraws ==
  /\ last'.op = "execute_batch"
  /\ last'.cycles = 2
  /\ last'.exc = "none"
  /\ ~vm.key_wait
  /\ billion \div vm.freq >= timer_period
  /\ NextFunc(vm) = "in_draw"
  /\ get_hword(vm, vm.pc + 2).v = get_hword(vm, vm.pc).v

(* The value in_draw reads from register i: VF is cleared before the read. *)
DrawReg(s, i) == IF i = 15 THEN 0 ELSE s.gprf[i]

SpriteRows(s) ==
  LET ypos == DrawReg(s, RegY(s)) % 32
      n == instr_d(get_hword(s, s.pc).v)
  IN { y \in 0..(n - 1) : ypos + y <= 31 }

SpriteLine(s, y) ==
  SpriteBits(MemAt(s.mem, s.index + y), DrawReg(s, RegX(s)) % 64)

SpriteLights(s) ==
  \E y \in SpriteRows(s) :
    SpriteLine(s, y) \ s.screen[(DrawReg(s, RegY(s)) % 32) + y] # {}

(* C22: performing the same draw twice in succession restores every screen *)
(* row to its value before the first draw, and if the sprite lit at least  *)
(* one pixel in the first draw then VF = 1 after the second draw.          *)
C22_DrawTwiceRestores ==
  [][TwoDraws =>
       /\ vm'.screen = vm.screen
       /\ (SpriteLights(vm) => vm'.gprf[15] = 1)
       /\ vm'.pc = vm.pc + 4
       /\ last'.out = << "mark", "mark" >>]_vars

C22_Witness ==
  /\ Ran
  /\ last.cycles = 2
  /\ last.exc = "none"
  /\ get_hword(vm, Prog_Start + 6).v = 57093
  /\ vm.pc = Prog_Start + 10
  /\ Blank(vm.screen)
  /\ vm.gprf[15] = 1


(***************************************************************************)
(* Sound.  Programs that set the sound timer and then loop or wait for a   *)
(* key, run at the default frequency or at 60 Hz (where every cycle counts *)
(* the timers down by one).                                                *)
(***************************************************************************)
MaxSoundCalls == 7

ProgSoundOne == << 96, 1, 240, 24, 18, 4 >>

ProgSoundTwo == << 96, 2, 240, 24, 18, 4 >>

ProgSoundWait == << 96, 2, 240, 24, 241, 10, 18, 6 >>

ProgSoundOff == << 96, 9, 240, 24, 96, 0, 240, 24, 18, 8 >>

SoundPrograms == { ProgSoundOne, ProgSoundTwo, ProgSoundWait, ProgSoundOff }

SoundElapsed == { OneCycle, timer_period }

SoundFreqs == { 60 }

SoundKeys == { 1 }

InitSound == InitLoaded(SoundPrograms, MaxSoundCalls)

NextSound ==
  \/ \E e \in SoundElapsed, rnd \in RandBytes : ExecuteBatch(e, rnd)
  \/ \E v \in SoundFreqs : Frequency(v)
  \/ \E k \in SoundKeys : KeyPressed(k)
  \/ \E k \in SoundKeys : KeyReleased(k)

SpecSound == InitSound /\ [][NextSound]_vars

IsSoundNote(n) == n \in { "start_sound", "stop_sound" }

SoundNotes(out) == SelectSeq(out, IsSoundNote)

(* C23: in every cycle that executes an instruction at most one sound      *)
(* notification is sent: start_sound exactly when the VM was not sounding  *)
(* and the sound timer is 2 or more at the end of the instruction,         *)
(* stop_sound exactly when the VM was sounding and the sound timer is 0;   *)
(* the sounding flag changes exactly when a notification is sent, and a    *)
(* sound timer of 1 never starts the sound.                                *)
C23_OneSoundNotification ==
  [][OneInstruction =>
       /\ Len(SoundNotes(last'.out)) <= 1
       /\ SoundNotes(last'.out) = << "start_sound" >>
            <=> (~vm.sounding /\ vm'.sound >= 2)
       /\ SoundNotes(last'.out) = << "stop_sound" >>
            <=> (vm.sounding /\ vm'.sound = 0)
       /\ vm'.sounding # vm.sounding <=> Len(SoundNotes(last'.out)) = 1
       /\ (~vm.sounding /\ vm'.sound = 1 => ~vm'.sounding)]_vars

C23_Witness ==
  /\ Ran
  /\ last.cycles = 1
  /\ last.out = << "stop_sound" >>
  /\ get_hword(vm, Prog_Start).v = 24578
  /\ ~vm.sounding
  /\ vm.sound = 0


(* C29: whenever the VM is sounding and the sound timer has counted down   *)
(* to 0, stop_sound is fired by the end of the cycle in which the timer    *)
(* reached 0, also when that cycle is consumed by a pending key wait: no   *)
(* batch ends with the VM sounding and the sound timer at 0.               *)
C29_SoundStopsWithTimer ==
  Ran /\ last.exc = "none" => ~(vm.sounding /\ vm.sound = 0)


(***************************************************************************)
(* Keys outside 0..15, passed to a VM that may be waiting for a key.       *)
(***************************************************************************)
MaxRangeCalls == 5

RangeKeys == { 7, no_key, 255 }

InitRange == InitWith(MaxRangeCalls)

NextRange ==
  \/ LoadProgram(ProgKey)
  \/ \E e \in Elapsed, rnd \in RandBytes : ExecuteBatch(e, rnd)
  \/ \E k \in RangeKeys : KeyPressed(k)
  \/ \E k \in RangeKeys : KeyReleased(k)

SpecRange == InitRange /\ [][NextRange]_vars

(* C24: key_pressed(k) and key_released(k) with k > 15 fail with an error  *)
(* and change no VM state, whether or not the VM is awaiting a key.        *)
C24_InvalidKeyChangesNothing ==
  [][last'.op \in { "key_pressed", "key_released" } /\ last'.arg > 15 =>
       /\ last'.exc # "none"
       /\ vm' = vm]_vars

C24_Witness ==
  /\ last.op = "key_released"
  /\ last.arg = no_key
  /\ last.exc # "none"
  /\ vm.key_wait
  /\ vm.pressed_key = no_key


(***************************************************************************)
(* A wait in which no key has been delivered yet: key_wait is set and PC   *)
(* is still at the FX0A instruction.  A wait in which a key has been       *)
(* delivered: key_wait is set and PC is two past the FX0A instruction.     *)
(***************************************************************************)
Undelivered(s) == s.key_wait /\ NextFunc(s) = "in_keyd"

Delivered(s) ==
  /\ s.key_wait
  /\ NextFunc(s) # "in_keyd"
  /\ s.pc >= Prog_Start + 2
  /\ get_instr_func(get_hword(s, s.pc - 2).v) = "in_keyd"

(* C25: when the VM is not awaiting a key, key_pressed(k) and              *)
(* key_released(k) for k <= 15 leave PC, registers, memory, screen, timers *)
(* and key_wait unchanged; and a key_released for a key that was delivered *)
(* before a load_program never ends a later key wait: it leaves key_wait   *)
(* set in a wait in which no key has been delivered.                       *)
C25_StaleReleaseHarmless ==
  [][last'.op \in { "key_pressed", "key_released" } /\ last'.arg <= 15 =>
       /\ (~vm.key_wait =>
             /\ vm'.pc = vm.pc
             /\ vm'.gprf = vm.gprf
             /\ vm'.mem = vm.mem
             /\ vm'.screen = vm.screen
             /\ vm'.delay = vm.delay
             /\ vm'.sound = vm.sound
             /\ ~vm'.key_wait)
       /\ (last'.op = "key_released" /\ Undelivered(vm) => vm'.key_wait)]_vars

(* C26: for each execution of FX0A, however many key_pressed calls arrive  *)
(* before the wait ends, one register is written and PC advances by 2 in   *)
(* total: a key_pressed call made in a wait in which a key has already     *)
(* been delivered changes neither PC nor any register.                     *)
C26_OneDeliveryPerWait ==
  [][last'.op = "key_pressed" /\ last'.arg <= 15 /\ Delivered(vm) =>
       /\ vm'.pc = vm.pc
       /\ vm'.gprf = vm.gprf]_vars


(* C27: whenever execute_batch returns or throws, on every path, the       *)
(* access lock is free, so that a following load_program, execute_batch,   *)
(* frequency or state save or restore acquires it.                         *)
C27_BatchLeavesLockFree == last.op = "execute_batch" => lock = "free"

(* C28: when load_program runs on one thread while an execute_batch on     *)
(* another thread is failing, then once load_program has returned the      *)
(* loaded program is not marked crashed before a cycle of it has failed:   *)
(* a VM in the state load_program leaves, with no load in progress and no  *)
(* cycle run since (PC at 0x200, both time accumulators 0), is not         *)
(* crashed.                                                                *)
C28_LoadedProgramNotCrashed ==
  (/\ threads.load.at = "idle"
   /\ vm.programmed
   /\ vm.pc = Prog_Start
   /\ vm.time_budget = 0
   /\ vm.timer = 0)
    => ~vm.crashed


(* A cycle that fetches DXYN without completing a 60 Hz period.            *)
DefersDraw ==
  /\ OneInstruction
  /\ DrawDeferred(vm)

(* C30, first part: a DXYN instruction fetched in a cycle in which the     *)
(* 60 Hz timer did not tick changes neither the screen nor VF, does not    *)
(* notify the display, and leaves PC at the draw instruction.              *)
C30_DeferredDrawRetried ==
  [][DefersDraw =>
       /\ vm'.screen = vm.screen
       /\ vm'.gprf = vm.gprf
       /\ vm'.mem = vm.mem
       /\ last'.out = << >>
       /\ vm'.pc = vm.pc
       /\ NextFunc(vm') = "in_draw"]_vars

(***************************************************************************)
(* A caller that keeps calling execute_batch, as the run loop of the       *)
(* application does, on a program that draws a glyph and then loops, at a  *)
(* frequency set before the first call.  Each call passes the time of one  *)
(* cycle at the default frequency or of one 60 Hz period.                  *)
(***************************************************************************)
MaxLiveCalls == 22

DrawWithin == 21

ProgDrawLoop == << 208, 5, 18, 2 >>

ProgGlyphLoop == << 160, 32, 208, 5, 18, 4 >>

LivePrograms == { ProgDrawLoop, ProgGlyphLoop }

LiveFreqs == { 60, 1000, DefaultFreq }

LiveElapsed == { OneCycle, timer_period }

InitDrawLive ==
  /\ \E program \in LivePrograms, value \in LiveFreqs :
       /\ vm = [load_program(Constructed(0), program) EXCEPT !.freq = value]
       /\ last = Called("frequency", value, "none")
  /\ lock = "free"
  /\ stream = << >>
  /\ keyboard = {}
  /\ win = Window(Constructed(0))
  /\ callsLeft = MaxLiveCalls
  /\ threads = IdleThreads

NextDrawLive == \E e \in LiveElapsed, rnd \in RandBytes : ExecuteBatch(e, rnd)

(***************************************************************************)
(* Fairness: a call that can be made is made.  BatchReturns is the part of *)
(* an ExecuteBatch step that the call counter shows; it is enabled exactly *)
(* when ExecuteBatch is, and every step of NextDrawLive is one.            *)
(***************************************************************************)
BatchReturns ==
  /\ callsLeft > 0
  /\ vm.crashed \/ lock = "free"
  /\ callsLeft' = callsLeft - 1

SpecDrawLive == InitDrawLive /\ [][NextDrawLive]_vars /\ WF_callsLeft(BatchReturns)

DrawPending ==
  /\ ~vm.crashed
  /\ ~vm.key_wait
  /\ NextFunc(vm) = "in_draw"
  /\ callsLeft >= DrawWithin

DrawPerformed ==
  /\ Ran
  /\ \E i \in DOMAIN last.out : last.out[i] = "mark"
  /\ NextFunc(vm) # "in_draw"

(* C30: a DXYN instruction fetched in a cycle in which the 60 Hz timer did *)
(* not tick changes neither the screen nor VF, does not notify the         *)
(* display, and leaves PC at the draw instruction (C30_DeferredDrawRetried)*)
(* and, while execute_batch keeps being called at a frequency of 1 or      *)
(* more, the draw is eventually performed and PC advances past it.         *)
C30_DrawRetriedUntilDone ==
  C30_DeferredDrawRetried /\ (DrawPending ~> DrawPerformed)

C30_Witness ==
  /\ Ran
  /\ last.cycles = 1
  /\ last.out = << "mark" >>
  /\ win.cycles = 21
  /\ vm.freq = DefaultFreq
  /\ get_hword(vm, Prog_Start).v = 40992
  /\ vm.pc = Prog_Start + 4
  /\ vm.screen[0] = { 60, 61, 62, 63 }

(***************************************************************************)
(* A cycle that fetches DXYN and completes a 60 Hz period, so that the     *)
(* draw is made.                                                           *)
(***************************************************************************)
PerformsDraw ==
  /\ OneInstruction
  /\ NextFunc(vm) = "in_draw"
  /\ ~DrawDeferred(vm)

(* The rows r of the sprite that land on the screen from row y0 down.      *)
DrawnRows(s, y0) ==
  { r \in 0..(instr_d(get_hword(s, s.pc).v) - 1) : y0 + r <= 31 }

(* Row y0 + r of the screen of s with byte mem[I + r] XORed in at column   *)
(* x0.                                                                     *)
XorRow(s, x0, y0, r) ==
  LET line == SpriteBits(MemAt(s.mem, s.index + r), x0)
      old == s.screen[y0 + r]
  IN (old \ line) \cup (line \ old)

(* C31: a performed DXYN with x0 = Vx mod 64 and y0 = Vy mod 32 (Vx and Vy *)
(* as they were before the instruction) XORs byte mem[I + r] into row      *)
(* y0 + r at column x0 for each r < min(N, 32 - y0), changes no other row, *)
(* and leaves VF = 1 iff a pixel that was on is off afterwards, else 0.    *)
C31_DrawSemantics ==
  [][PerformsDraw =>
       LET x0 == vm.gprf[RegX(vm)] % 64
           y0 == vm.gprf[RegY(vm)] % 32
       IN /\ \A r \in DrawnRows(vm, y0) :
               vm'.screen[y0 + r] = XorRow(vm, x0, y0, r)
          /\ \A row \in 0..31 :
               (row - y0) \notin DrawnRows(vm, y0)
                 => vm'.screen[row] = vm.screen[row]
          /\ vm'.gprf[15] =
               (IF \E row \in 0..31 : vm.screen[row] \ vm'.screen[row] # {}
                  THEN 1 ELSE 0)]_vars

(***************************************************************************)
(* Bitwise operations and shifts.  Each program loads a value into VX, a   *)
(* value into VY, and then executes 8XY1, 8XY2, 8XY3, 8XY6 or 8XYE; X and  *)
(* Y may be the same register, and either may be VF.                       *)
(***************************************************************************)
MaxBitCalls == 3

BitValues == { 0, 1, 2, 85, 128, 129, 170, 255 }

BitRegs == { 0, 3, 15 }

BitOps == { 1, 2, 3, 6, 14 }

BitPrograms ==
  { AluProgram(x, y, a, b, op) :
      x \in BitRegs, y \in BitRegs, a \in BitValues, b \in BitValues,
      op \in BitOps }

InitBit == InitLoaded(BitPrograms, MaxBitCalls)

NextBit == \E rnd \in RandBytes : ExecuteBatch(OneCycle, rnd)

SpecBit == InitBit /\ [][NextBit]_vars

(* The bits set in the result that 8XY1, 8XY2 or 8XY3 documents for the    *)
(* operands a and b.                                                       *)
LogicBits(f, a, b) ==
  CASE f = "in_or" -> ByteBits(a) \cup ByteBits(b)
    [] f = "in_and" -> ByteBits(a) \cap ByteBits(b)
    [] f = "in_xor" -> (ByteBits(a) \ ByteBits(b)) \cup (ByteBits(b) \ ByteBits(a))

LogicOp == OneInstruction /\ NextFunc(vm) \in { "in_or", "in_and", "in_xor" }

(* C32 as stated: after 8XY1, 8XY2 or 8XY3, Vx holds the bitwise OR, AND   *)
(* or XOR of the old Vx and old Vy for every x and y, and every register   *)
(* other than Vx, VF included, is unchanged.                               *)
C32_LogicKeepsVF ==
  [][LogicOp =>
       /\ ByteBits(vm'.gprf[RegX(vm)]) =
            LogicBits(NextFunc(vm), vm.gprf[RegX(vm)], vm.gprf[RegY(vm)])
       /\ \A i \in 0..15 : i # RegX(vm) => vm'.gprf[i] = vm.gprf[i]]_vars

(* C32: after 8XY1, 8XY2 or 8XY3, VF is 0; for x other than F, Vx holds    *)
(* the bitwise OR, AND or XOR of the old Vx and old Vy; and every register *)
(* other than Vx and VF is unchanged.                                      *)
C32_LogicClearsVF ==
  [][LogicOp =>
       /\ vm'.gprf[15] = 0
       /\ (RegX(vm) # 15 =>
             ByteBits(vm'.gprf[RegX(vm)]) =
               LogicBits(NextFunc(vm), vm.gprf[RegX(vm)], vm.gprf[RegY(vm)]))
       /\ \A i \in 0..14 : i # RegX(vm) => vm'.gprf[i] = vm.gprf[i]]_vars

C32_Witness ==
  /\ Ran
  /\ win.cycles = 3
  /\ get_hword(vm, Prog_Start + 4).v = 33009
  /\ MemAt(vm.mem, Prog_Start + 1) = 85
  /\ MemAt(vm.mem, Prog_Start + 3) = 170
  /\ vm.gprf[0] = 255
  /\ vm.gprf[15] = 0

MaxMemCalls == 6

ProgStor == << 96, 17, 97, 34, 98, 51, 163, 0, 242, 85 >>

ProgStorEnd == << 96, 17, 97, 34, 175, 254, 242, 85 >>

ProgReadEnd == << 96, 17, 97, 34, 175, 254, 242, 101 >>

ProgBcdLast == << 96, 255, 175, 255, 240, 51 >>

ProgCallSafe == << 34, 6, 18, 2, 0, 0, 96, 3, 163, 0, 240, 85, 0, 238 >>

ProgCallStor == << 34, 6, 18, 2, 0, 0, 96, 3, 160, 0, 240, 85, 0, 238 >>

ProgCallBcd == << 34, 6, 18, 2, 0, 0, 96, 255, 160, 0, 240, 51, 0, 238 >>

MemPrograms ==
  { ProgStor, ProgStorEnd, ProgReadEnd, ProgBcdLast, ProgCallSafe,
    ProgCallStor, ProgCallBcd }

MemElapsed == { OneCycle, 2 * OneCycle, 3 * OneCycle }

InitMem == InitLoaded(MemPrograms, MaxMemCalls)

NextMem == \E e \in MemElapsed, rnd \in RandBytes : ExecuteBatch(e, rnd)

SpecMem == InitMem /\ [][NextMem]_vars

(* C34: FX55 stores V0..VX at mem[I0 .. I0 + X], I0 being I before the     *)
(* instruction, changes no other memory byte and no register, and leaves   *)
(* I = I0 + X.                                                             *)
C34_StoreLeavesIndex ==
  [][OneInstruction /\ NextFunc(vm) = "in_stor" =>
       /\ \A i \in 0..RegX(vm) : MemAt(vm'.mem, vm.index + i) = vm.gprf[i]
       /\ \A a \in 0..(MemSize - 1) :
            (a < vm.index \/ a > vm.index + RegX(vm))
              => MemAt(vm'.mem, a) = MemAt(vm.mem, a)
       /\ vm'.gprf = vm.gprf
       /\ vm'.index = vm.index + RegX(vm)]_vars

(***************************************************************************)
(* A batch whose first cycle fetches FX33, FX55 or FX65 with I so high     *)
(* that the instruction would access an address of MemSize or above.       *)
(***************************************************************************)
Overruns(s) ==
  \/ NextFunc(s) = "in_bcd" /\ s.index + 2 >= MemSize
  \/ NextFunc(s) \in { "in_stor", "in_read" } /\ s.index + RegX(s) >= MemSize

OverrunStep ==
  /\ last'.op = "execute_batch"
  /\ ~last'.refused
  /\ last'.cycles = 0
  /\ ~vm.key_wait
  /\ Overruns(vm)

(* C35: when FX33, FX55 or FX65 would access an address of 4096 or above,  *)
(* the VM crashes and memory, V0..VF and I are as they were before the     *)
(* instruction.                                                            *)
C35_OverrunChangesNothing ==
  [][OverrunStep =>
       /\ vm'.crashed
       /\ vm'.mem = vm.mem
       /\ vm'.gprf = vm.gprf
       /\ vm'.index = vm.index]_vars

(* C36: a 00EE that returns from the subroutine called by the 2NNN at      *)
(* Prog_Start (the only call of the program, made with an empty stack)     *)
(* resumes at Prog_Start + 2 with SP back at 0, whatever the subroutine    *)
(* executed, stores through I included.                                    *)
C36_ReturnResumesAfterCall ==
  [][/\ OneInstruction
     /\ NextFunc(vm) = "in_rts"
     /\ get_instr_func(get_hword(vm, Prog_Start).v) = "in_call"
     /\ vm.sp = 2
     => /\ vm'.pc = Prog_Start + 2
        /\ vm'.sp = 0]_vars

(***************************************************************************)
(* Saved states.  A VM that runs a key-wait program or a loop, has its     *)
(* frequency changed, and is saved and restored; Twin is a second, newly   *)
(* constructed instance restored from the same saved bytes.                *)
(***************************************************************************)
MaxTwinCalls == 5

TwinPrograms == { ProgKey, ProgLoop }

TwinKeys == { 7 }

InitTwin == InitLoaded(TwinPrograms, MaxTwinCalls)

NextTwin ==
  \/ \E e \in Elapsed, rnd \in RandBytes : ExecuteBatch(e, rnd)
  \/ \E v \in Freqs : Frequency(v)
  \/ \E k \in TwinKeys : KeyPressed(k)
  \/ \E k \in TwinKeys : KeyReleased(k)
  \/ Save
  \/ Restore

SpecTwin == InitTwin /\ [][NextTwin]_vars

Twin(is) == StreamExtract(Constructed(0), is).s

(* What the claim compares: PC, registers, memory, screen, timers, flags.  *)
Observed(s) ==
  [pc |-> s.pc, sp |-> s.sp, index |-> s.index, gprf |-> s.gprf,
   mem |-> s.mem, screen |-> s.screen, delay |-> s.delay, sound |-> s.sound,
   sounding |-> s.sounding, crashed |-> s.crashed,
   programmed |-> s.programmed, can_draw |-> s.can_draw,
   key_wait |-> s.key_wait]

JustRestored == last.op = "restore" /\ last.exc = "none"

(* C37: a VM restored from saved bytes and a second instance restored from *)
(* the same bytes agree on PC, registers, memory, screen, timers and flags *)
(* after the same next call (execute_batch with the same elapsed time,     *)
(* keyboard and random byte, key_pressed or key_released with the same     *)
(* key), also when the state was saved between key_pressed and             *)
(* key_released or after a change of frequency.                            *)
C37_RestoredInstancesAgree ==
  [][JustRestored =>
       /\ Observed(vm) = Observed(Twin(stream))
       /\ (last'.op = "execute_batch" =>
             \E rnd \in RandBytes :
               Observed(vm') =
                 Observed(execute_batch(Twin(stream), last'.arg,
                                        keyboard, rnd).s))
       /\ (last'.op = "key_pressed" =>
             Observed(vm') = Observed(key_pressed(Twin(stream), last'.arg).s))
       /\ (last'.op = "key_released" =>
             Observed(vm') =
               Observed(key_released(Twin(stream), last'.arg).s))]_vars

(***************************************************************************)
(* Restoring from input that ends early.  A VM that runs a program with a  *)
(* subroutine or a key wait is saved; the saved bytes are cut short, as a  *)
(* truncated state file is; and the state is restored from what is left.   *)
(***************************************************************************)
MaxRestoreCalls == 4

RestorePrograms == { ProgKey, ProgCallRet }

CutLens == { 0, 1, 2, 5, 13, 30, 45 + Prog_Start + 1, StateSize - 1 }

InitRestore == InitLoaded(RestorePrograms, MaxRestoreCalls)

Cut(n) ==
  /\ Len(stream) = StateSize
  /\ stream' = SubSeq(stream, 1, n)
  /\ UNCHANGED << vm, lock, keyboard, last, win, callsLeft, threads >>

NextRestore ==
  \/ \E e \in Elapsed, rnd \in RandBytes : ExecuteBatch(e, rnd)
  \/ \E k \in Keys : KeyPressed(k)
  \/ Save
  \/ \E n \in CutLens : Cut(n)
  \/ Restore

SpecRestore == InitRestore /\ [][NextRestore]_vars

(* A call of the extraction operator on input that ends early.             *)
RestoresShort ==
  /\ last'.op = "restore"
  /\ callsLeft' = callsLeft - 1
  /\ Len(stream) < StateSize

MaxFreqCalls == 5

FreqPrograms == { ProgLoop, ProgKey }

FreqValues == { 0, 1, 60, 65535 }

InitFreq == InitLoaded(FreqPrograms, MaxFreqCalls)

BatchAtZero(elapsed_time) ==
  /\ callsLeft > 0
  /\ callsLeft' = callsLeft - 1
  /\ ~vm.crashed
  /\ vm.freq = 0
  /\ lock = "free"
  /\ Returned(NoRun([vm EXCEPT !.time_budget = @ + elapsed_time], "none"),
              elapsed_time)
  /\ UNCHANGED << stream, keyboard, threads >>

NextFreq ==
  \/ \E e \in Elapsed, rnd \in RandBytes : ExecuteBatch(e, rnd)
  \/ \E e \in Elapsed : BatchAtZero(e)
  \/ \E v \in FreqValues : Frequency(v)

SpecFreq == InitFreq /\ [][NextFreq]_vars

(* C39: whatever value frequency(v) was given, an execute_batch call that  *)
(* is not refused divides by a frequency other than 0, works with a cycle  *)
(* period other than 0, and either completes or reports an error of the    *)
(* VM.                                                                     *)
C39_NoDivisionByZero ==
  Ran =>
    /\ vm.freq # 0
    /\ billion \div vm.freq # 0
    /\ last.exc \in { "none", "Chip8Error", "Chip8Error*", "std::out_of_range*" }

(***************************************************************************)
(* The speaker.  The sound programs, with a program loaded anew at any     *)
(* point, the VM sounding or not.                                          *)
(***************************************************************************)
NextSpeaker ==
  \/ \E e \in SoundElapsed, rnd \in RandBytes : ExecuteBatch(e, rnd)
  \/ \E v \in SoundFreqs : Frequency(v)
  \/ \E k \in SoundKeys : KeyPressed(k)
  \/ \E k \in SoundKeys : KeyReleased(k)
  \/ \E p \in SoundPrograms : LoadProgram(p)

SpecSpeaker == InitSound /\ [][NextSpeaker]_vars

(* The state of the speaker after the notifications notes, sent in order   *)
(* to a speaker that was on or off before.                                 *)
SpeakerAfter(before, notes) ==
  IF notes = << >> THEN before ELSE notes[Len(notes)] = "start_sound"

Alternate(before, notes) ==
  \A i \in 1..Len(notes) :
    notes[i] = (IF SpeakerAfter(before, SubSeq(notes, 1, i - 1))
                  THEN "stop_sound" ELSE "start_sound")

(* C40: the sounding flag agrees with the last Sound notification sent     *)
(* (false when none was sent).  It does so initially, so it does always if *)
(* every call keeps the agreement: the notifications a call sends start    *)
(* with the opposite of the flag before the call and alternate, and the    *)
(* flag after the call is the last of them, or the flag before the call    *)
(* when the call sent none.                                                *)
C40_SoundingTracksSpeaker ==
  [][/\ Alternate(vm.sounding, SoundNotes(last'.out))
     /\ vm'.sounding = SpeakerAfter(vm.sounding, SoundNotes(last'.out))]_vars


====
